---- MODULE Spec2Model ----
(***************************************************************************)
(* ByteHide Shield JavaScript CLI: the `protect` command as a state        *)
(* machine (discover, load configuration, resolve and validate the token,  *)
(* validate the output options, dry run or per-file loop, summary).        *)
(*                                                                         *)
(* Strings that the code takes apart (paths, file contents) are sequences  *)
(* of tokens: "a.protected.js" is <<"a", ".protected", ".js">> and         *)
(* "src/b.js" is <<"src", "/", "b", ".js">>.  The empty sequence is the    *)
(* empty / undefined string (both are falsy in the code).                  *)
(***************************************************************************)
EXTENDS Integers, Sequences, FiniteSets, TLC

VARIABLES
    pc,            \* position of protect(): the step that runs next
    options,       \* commander's options object (immutable for the run)
    env,           \* process.env: BYTEHIDE_SHIELD_TOKEN, BYTEHIDE_TOKEN
    matched,       \* what glob.sync returns for the patterns, concatenated
    files,         \* file system: path -> content of the regular files
    files0,        \* the regular files as they were when the run started
    dirs,          \* file system: the directories that exist
    cfgFiles,      \* file system: path -> parsed content of configuration files
    allFiles,      \* protect(): allFiles
    config,        \* protect(): config (result of loadConfig)
    token,         \* protect(): token (result of getToken)
    i,             \* protect(): loop index (0-based, as in the code)
    cur,           \* locals of the running iteration / obfuscateFile call
    successCount, failCount, skippedCount,
    failedFiles, skippedFiles,
    inflight,      \* HTTPS requests sent and not yet answered
    netLog,        \* every HTTPS request sent, in order
    answers,       \* every HTTPS response delivered, in order, with its file
    fsLog,         \* every file-system mutation performed, in order
    probes,        \* every existsSync probe for a configuration file, in order
    stdout,        \* the lines of the dry-run report and the summary
    fatal,         \* class of the run-level error reported, "" when none
    exitCode,      \* process exit code, NoExit while running
    deletes,       \* the files other processes removed during the run
    wrapper,       \* bin/shield.js: the parent process and its view of the child
    call           \* index.js: a call of obfuscate(code, token, config, options)

\* the state of the process that runs protect()
protectVars == <<pc, options, env, matched, files, files0, dirs, cfgFiles, allFiles,
                 config, token, i, cur, successCount, failCount, skippedCount,
                 failedFiles, skippedFiles, inflight, netLog, answers, fsLog, probes,
                 stdout, fatal, exitCode, deletes>>

vars == <<protectVars, wrapper, call>>

(***************************************************************************)
(* Bounds of the model.                                                    *)
(***************************************************************************)
MaxMatched == 2      \* longest glob result explored
MaxDeletes == 1      \* files another process may delete during the loop
MaxSignals == 3      \* termination signals the parent process receives

NoExit == 0 - 1       \* exitCode while the process is running
NoPath == <<>>
NullCode == 0 - 2     \* `code` of the exit event of a child killed by a signal

\* index.js: obfuscate() has not been called
NotCalled ==
    [state |-> "none", code |-> <<>>, token |-> <<>>, includeSourceMap |-> FALSE,
     includeSymbols |-> FALSE, answer |-> <<>>, result |-> <<>>, error |-> <<>>]

\* bin/shield.js right after spawn: the child runs, no signal was received
Spawned ==
    [child |-> "running", childCode |-> NoExit, pending |-> <<>>, killed |-> FALSE,
     received |-> <<>>, forwarded |-> <<>>, parent |-> "running",
     parentCode |-> NoExit]

(***************************************************************************)
(* Strings as token sequences.                                             *)
(***************************************************************************)
Last(s) == s[Len(s)]

Front(s) == SubSeq(s, 1, Len(s) - 1)

\* String.prototype.endsWith
EndsWith(s, tok) == Len(s) > 0 /\ Last(s) = tok

\* position of the first occurrence of token tok in s, 0 when absent
RECURSIVE IndexFrom(_, _, _)
IndexFrom(s, tok, k) ==
    IF k > Len(s) THEN 0
    ELSE IF s[k] = tok THEN k
    ELSE IndexFrom(s, tok, k + 1)

IndexOf(s, tok) == IndexFrom(s, tok, 1)

\* position of the last occurrence of token tok in s, 0 when absent
RECURSIVE LastIndexFrom(_, _, _)
LastIndexFrom(s, tok, k) ==
    IF k < 1 THEN 0
    ELSE IF s[k] = tok THEN k
    ELSE LastIndexFrom(s, tok, k - 1)

LastIndexOf(s, tok) == LastIndexFrom(s, tok, Len(s))

\* String.prototype.replace(pattern, replacement) with a string pattern:
\* only the FIRST occurrence is replaced; an empty pattern matches at the
\* start of the string.
Replace(s, pat, rep) ==
    IF pat = <<>> THEN rep \o s
    ELSE LET k == IndexOf(s, pat[1]) IN
         IF k = 0 THEN s
         ELSE SubSeq(s, 1, k - 1) \o rep \o SubSeq(s, k + 1, Len(s))

\* [...new Set(xs)]: duplicates removed, first occurrences kept in order
RECURSIVE Dedup(_)
Dedup(xs) ==
    IF xs = <<>> THEN <<>>
    ELSE LET rest == Dedup(Front(xs)) IN
         IF \E k \in 1..Len(rest) : rest[k] = Last(xs) THEN rest
         ELSE Append(rest, Last(xs))

\* allFiles.filter(file => file.endsWith('.js') || file.endsWith('.mjs'))
RECURSIVE FilterJs(_)
FilterJs(xs) ==
    IF xs = <<>> THEN <<>>
    ELSE LET rest == FilterJs(Front(xs)) IN
         IF EndsWith(Last(xs), ".js") \/ EndsWith(Last(xs), ".mjs")
         THEN Append(rest, Last(xs)) ELSE rest

Range(s) == {s[k] : k \in 1..Len(s)}

(***************************************************************************)
(* Node's path module on token sequences.                                  *)
(***************************************************************************)
Sep == "/"
Dot == <<".">>

\* tokens that are an extension as path.extname sees one
ExtTokens == {".js", ".mjs", ".json", ".yaml", ".txt", ".map", ".backup"}

\* path.basename
Basename(p) == SubSeq(p, LastIndexOf(p, Sep) + 1, Len(p))

\* path.dirname: "." for a path without a directory part
Dirname(p) ==
    LET k == LastIndexOf(p, Sep) IN
    IF k = 0 THEN Dot ELSE SubSeq(p, 1, k - 1)

\* path.extname: from the last "." of the base name, "" when the base name
\* has none or starts with it
Extname(p) ==
    LET b == Basename(p) IN
    IF Len(b) > 1 /\ Last(b) \in ExtTokens THEN <<Last(b)>> ELSE <<>>

\* path.join(dir, name); joining with "." or the working directory names
\* the same file as the bare name
Join(dir, name) == IF dir = Dot \/ dir = <<>> THEN name ELSE dir \o <<Sep>> \o name

(***************************************************************************)
(* JavaScript values.  Option values and tokens are strings; "" is the     *)
(* empty string and Undefined the value of a property that is not set.     *)
(***************************************************************************)
Undefined == "undefined"

\* truthiness of a string-valued expression
Truthy(v) == v # "" /\ v # Undefined

\* a || b on string values
Or(a, b) == IF Truthy(a) THEN a ELSE b

\* JSON.stringify of an object: properties whose value is undefined are left out
JsonObject(obj) ==
    [k \in {x \in DOMAIN obj : obj[x] # Undefined} |-> obj[k]]

\* obj.key, undefined when the object has no such property
Get(obj, key) == IF key \in DOMAIN obj THEN obj[key] ELSE Undefined

(***************************************************************************)
(* utils/obfuscate.js: watermark, guard, byte-order mark, side-file paths. *)
(* A file content is a sequence of tokens: "BOM" (U+FEFF), "PFX" (the      *)
(* literal `// _0xBHSHLD_`), single characters, "SFX" (`_marker`), "NL"    *)
(* and opaque stretches of code.                                           *)
(***************************************************************************)
HexLower == {"0", "1", "2", "3", "4", "5", "6", "7", "8", "9",
             "a", "b", "c", "d", "e", "f"}

\* the {8} of the watermark pattern, and the 2 * 4 hex digits of randomBytes(4)
WatermarkIdLen == 8

\* what crypto.randomBytes(4).toString('hex') may return, two representatives
WatermarkIds == { <<"0", "1", "2", "3", "a", "b", "c", "d">>,
                  <<"f", "f", "f", "f", "f", "f", "f", "f">> }

\* generateWatermark drawing 3 random bytes: six hex digits
generateWatermarkShort(uniqueId) ==
    <<"PFX">> \o SubSeq(uniqueId, 1, Len(uniqueId) - 2) \o <<"SFX">>

generateWatermark(uniqueId) == <<"PFX">> \o uniqueId \o <<"SFX">>

\* /\/\/ _0xBHSHLD_[a-f0-9]{8}_marker/.test(content): a match at ANY position
isAlreadyObfuscated(content) ==
    \E k \in 1..Len(content) :
        /\ content[k] = "PFX"
        /\ k + WatermarkIdLen + 1 <= Len(content)
        /\ \A j \in 1..WatermarkIdLen : content[k + j] \in HexLower
        /\ content[k + WatermarkIdLen + 1] = "SFX"

\* addBOM returning the content without the mark
addNoBOM(content) == content

\* Buffer.concat([EF BB BF, Buffer.from(content, 'utf8')])
addBOM(content) == <<"BOM">> \o content

\* getSourceMapPath ignoring the custom path
getSourceMapPathDefault(jsFilePath, customPath) == jsFilePath \o <<".map">>

getSourceMapPath(jsFilePath, customPath) ==
    IF customPath # NoPath THEN customPath ELSE jsFilePath \o <<".map">>

getSymbolsPath(jsFilePath, customPath) ==
    IF customPath # NoPath THEN customPath ELSE jsFilePath \o <<".symbols", ".json">>

\* utils/files.js createBackup: the path of the copy
BackupPath(filePath) == filePath \o <<".backup">>

\* getFriendlyErrorMessage without `case 429`
getFriendlyErrorMessageNo429(statusCode) ==
    CASE statusCode = 400 ->
           "Request contains invalid data. Check your configuration and source code."
      [] statusCode \in {401, 403, 404} ->
           "Authentication error. Verify that your project token is valid. For more information visit: docs.bytehide.com/platforms/javascript/products/shield/configuration-project-token"
      [] statusCode \in {500, 502, 503, 504} ->
           "Service error. Please try again later."
      [] OTHER ->
           "Error processing the request. Check your configuration and try again."

getFriendlyErrorMessage(statusCode) ==
    CASE statusCode = 400 ->
           "Request contains invalid data. Check your configuration and source code."
      [] statusCode \in {401, 403, 404} ->
           "Authentication error. Verify that your project token is valid. For more information visit: docs.bytehide.com/platforms/javascript/products/shield/configuration-project-token"
      [] statusCode = 429 ->
           "Protection skipped to avoid performance issues in final build. Reducing file size..."
      [] statusCode \in {500, 502, 503, 504} ->
           "Service error. Please try again later."
      [] OTHER ->
           "Error processing the request. Check your configuration and try again."

ConnectionError == "Connection error: Check your internet connection and try again."
AlreadyProtectedError == "The file has already been protected."

(***************************************************************************)
(* commands/protect.js: output path planning and option validation.        *)
(***************************************************************************)
getOutputPath(inputFile, opts) ==
    IF opts.output # NoPath THEN opts.output
    ELSE LET filename == Basename(inputFile)
             ext      == Extname(inputFile)
         IN  IF opts.outputDir # NoPath
             THEN Join(opts.outputDir, Replace(filename, ext, opts.outputExt \o ext))
             ELSE Replace(inputFile, ext, opts.outputExt \o ext)

\* validateOutputOptions: "" when it returns true, else the error it reports
\* before process.exit(1)
validateOutputOptions(fileList, opts) ==
    IF Len(fileList) = 1 /\ opts.output # NoPath
    THEN IF Dirname(opts.output) \notin dirs
         THEN "Output directory does not exist" ELSE ""
    ELSE IF Len(fileList) > 1 /\ opts.output # NoPath
    THEN "--output can only be used with a single input file."
    ELSE IF Len(fileList) > 1 /\ opts.sourceMapPath # NoPath
    THEN "--source-map-path can only be used with a single input file."
    ELSE IF Len(fileList) > 1 /\ opts.symbolsPath # NoPath
    THEN "--symbols-path can only be used with a single input file."
    ELSE IF opts.outputDir # NoPath /\ opts.outputDir \notin dirs
    THEN "Output directory does not exist"
    ELSE ""

\* one line of the dry-run report: the file, its planned code path and the
\* side files that would be written
DryRunLine(file, fileList, opts) ==
    LET outputPath == getOutputPath(file, opts) IN
    [ file |-> file,
      outputPath |-> outputPath,
      sourceMapPath |->
          IF ~opts.sourceMap THEN NoPath
          ELSE IF opts.sourceMapPath # NoPath /\ Len(fileList) = 1
               THEN opts.sourceMapPath ELSE outputPath \o <<".map">>,
      symbolsPath |->
          IF ~opts.symbols THEN NoPath
          ELSE IF opts.symbolsPath # NoPath /\ Len(fileList) = 1
               THEN opts.symbolsPath ELSE outputPath \o <<".symbols", ".json">> ]

(***************************************************************************)
(* utils/config.js.  A configuration file is held parsed: `parse` tells    *)
(* whether JSON.parse / require accepts its text, `obj` is the object.     *)
(***************************************************************************)
DEFAULT_CONFIG ==
    [k \in {"controlFlowFlattening", "debugProtection", "devtoolsBlocking"} |->
        IF k = "debugProtection" THEN "false" ELSE "true"]

DEFAULT_CONFIG_FILE == <<"shield.config", ".json">>

TokenKeys == {"ProjectToken", "projectToken"}

\* existsSync on a path that names a configuration file
ConfigExists(p) == p \in DOMAIN cfgFiles

\* getDirectoriesFromFiles
RECURSIVE MapDirname(_)
MapDirname(filePaths) ==
    IF filePaths = <<>> THEN <<>>
    ELSE Append(MapDirname(Front(filePaths)), Dirname(Last(filePaths)))

getDirectoriesFromFiles(filePaths) == Dedup(MapDirname(filePaths))

\* the directories of the list that exist, in order
RECURSIVE ExistingDirs(_)
ExistingDirs(ds) ==
    IF ds = <<>> THEN <<>>
    ELSE LET rest == ExistingDirs(Front(ds)) IN
         IF Last(ds) \in dirs THEN Append(rest, Last(ds)) ELSE rest

\* the loop of findConfigInDirectories from position k on: the first
\* directory holding the default file, with the probes made on the way
RECURSIVE FindFrom(_, _, _)
FindFrom(uniqueDirs, k, probed) ==
    IF k > Len(uniqueDirs) THEN [path |-> NoPath, probes |-> probed]
    ELSE LET configPath == Join(uniqueDirs[k], DEFAULT_CONFIG_FILE) IN
         IF ConfigExists(configPath)
         THEN [path |-> configPath, probes |-> Append(probed, configPath)]
         ELSE FindFrom(uniqueDirs, k + 1, Append(probed, configPath))

\* findConfigInDirectories walking the directories from the last one
findConfigInDirectoriesLastFirst(directories) ==
    LET ds == ExistingDirs(Dedup(directories)) IN
    FindFrom([k \in 1..Len(ds) |-> ds[Len(ds) + 1 - k]], 1, <<>>)

findConfigInDirectories(directories) ==
    FindFrom(ExistingDirs(Dedup(directories)), 1, <<>>)

\* findDefaultConfigFile: path.join(process.cwd(), DEFAULT_CONFIG_FILE)
findDefaultConfigFile ==
    IF ConfigExists(DEFAULT_CONFIG_FILE) THEN DEFAULT_CONFIG_FILE ELSE NoPath

\* validateConfigRequirement ignoring `required`: no file found returns null
validateConfigOptional(configPath, filePaths, required) ==
    IF configPath # NoPath /\ ConfigExists(configPath)
    THEN [end |-> "return", path |-> configPath, probes |-> <<configPath>>]
    ELSE IF configPath # NoPath
    THEN [end |-> "throw", path |-> NoPath, probes |-> <<configPath>>]
    ELSE IF findDefaultConfigFile # NoPath
    THEN [end |-> "return", path |-> findDefaultConfigFile,
          probes |-> <<DEFAULT_CONFIG_FILE>>]
    ELSE LET found == IF Len(filePaths) > 0
                      THEN findConfigInDirectories(getDirectoriesFromFiles(filePaths))
                      ELSE [path |-> NoPath, probes |-> <<>>]
         IN  [end |-> "return", path |-> found.path,
              probes |-> <<DEFAULT_CONFIG_FILE>> \o found.probes]

\* validateConfigRequirement falling back to the search when the explicit
\* path does not exist
validateConfigFallsBack(configPath, filePaths, required) ==
    IF configPath # NoPath /\ ConfigExists(configPath)
    THEN [end |-> "return", path |-> configPath, probes |-> <<configPath>>]
    ELSE IF findDefaultConfigFile # NoPath
    THEN [end |-> "return", path |-> findDefaultConfigFile,
          probes |-> <<configPath, DEFAULT_CONFIG_FILE>>]
    ELSE LET found == IF Len(filePaths) > 0
                      THEN findConfigInDirectories(getDirectoriesFromFiles(filePaths))
                      ELSE [path |-> NoPath, probes |-> <<>>]
             probed == <<configPath, DEFAULT_CONFIG_FILE>> \o found.probes
         IN  IF found.path # NoPath
             THEN [end |-> "return", path |-> found.path, probes |-> probed]
             ELSE [end |-> "throw", path |-> NoPath, probes |-> probed]

\* validateConfigRequirement: how it ends ("return", "throw", "exit"), the
\* path it returns and the configuration paths it probed
validateConfigRequirement(configPath, filePaths, required) ==
    IF configPath # NoPath /\ ConfigExists(configPath)
    THEN [end |-> "return", path |-> configPath, probes |-> <<configPath>>]
    ELSE IF configPath # NoPath
    THEN [end |-> "throw", path |-> NoPath, probes |-> <<configPath>>]
    ELSE IF findDefaultConfigFile # NoPath
    THEN [end |-> "return", path |-> findDefaultConfigFile,
          probes |-> <<DEFAULT_CONFIG_FILE>>]
    ELSE LET found == IF Len(filePaths) > 0
                      THEN findConfigInDirectories(getDirectoriesFromFiles(filePaths))
                      ELSE [path |-> NoPath, probes |-> <<>>]
             probed == <<DEFAULT_CONFIG_FILE>> \o found.probes
         IN  IF found.path # NoPath
             THEN [end |-> "return", path |-> found.path, probes |-> probed]
             ELSE IF required
             THEN [end |-> "exit", path |-> NoPath, probes |-> probed]
             ELSE [end |-> "return", path |-> NoPath, probes |-> probed]

\* the merge with the spread operands in the other order:
\* { ...obfuscationConfig, ...DEFAULT_CONFIG, ProjectToken, projectToken }
MergeConfigDefaultsLast(obj) ==
    [k \in DOMAIN DEFAULT_CONFIG \cup DOMAIN obj \cup TokenKeys |->
        IF k \in TokenKeys THEN Get(obj, k)
        ELSE IF k \in DOMAIN DEFAULT_CONFIG THEN DEFAULT_CONFIG[k]
        ELSE obj[k]]

\* const { ProjectToken, projectToken, ...obfuscationConfig } = config;
\* return { ...DEFAULT_CONFIG, ...obfuscationConfig, ProjectToken, projectToken };
MergeConfig(obj) ==
    [k \in DOMAIN DEFAULT_CONFIG \cup DOMAIN obj \cup TokenKeys |->
        IF k \in TokenKeys THEN Get(obj, k)
        ELSE IF k \in DOMAIN obj THEN obj[k]
        ELSE DEFAULT_CONFIG[k]]

\* loadConfig: how it ends, the error class, the configuration it returns
\* and the probes of the search
loadConfig(configPath, filePaths, required) ==
    LET v == validateConfigRequirement(configPath, filePaths, required) IN
    IF v.end = "exit"
    THEN [end |-> "exit", error |-> "ConfigRequired",
          config |-> DEFAULT_CONFIG, path |-> NoPath, probes |-> v.probes]
    ELSE IF v.end = "throw"
    THEN [end |-> "throw", error |-> "ConfigNotFound",
          config |-> DEFAULT_CONFIG, path |-> NoPath, probes |-> v.probes]
    ELSE IF v.path = NoPath
    THEN [end |-> "return", error |-> "",
          config |-> DEFAULT_CONFIG, path |-> NoPath, probes |-> v.probes]
    ELSE IF ~(EndsWith(v.path, ".json") \/ EndsWith(v.path, ".js"))
    THEN [end |-> "throw", error |-> "ConfigFormatError",
          config |-> DEFAULT_CONFIG, path |-> v.path, probes |-> v.probes]
    ELSE IF cfgFiles[v.path].parse # "ok"
    THEN [end |-> "throw", error |-> "ConfigParseError",
          config |-> DEFAULT_CONFIG, path |-> v.path, probes |-> v.probes]
    ELSE [end |-> "return", error |-> "",
          config |-> MergeConfig(cfgFiles[v.path].obj), path |-> v.path,
          probes |-> v.probes]

extractTokenFromConfig(cfg) ==
    LET t == Or(Get(cfg, "ProjectToken"), Get(cfg, "projectToken")) IN
    IF Truthy(t) THEN t ELSE ""

\* getToken reading the legacy variable before BYTEHIDE_SHIELD_TOKEN
getTokenLegacyFirst(cliToken, cfg) ==
    IF Truthy(cliToken) THEN cliToken
    ELSE IF Truthy(env.BYTEHIDE_TOKEN) THEN env.BYTEHIDE_TOKEN
    ELSE IF Truthy(env.BYTEHIDE_SHIELD_TOKEN) THEN env.BYTEHIDE_SHIELD_TOKEN
    ELSE extractTokenFromConfig(cfg)

\* getToken; the result "" is null
getToken(cliToken, cfg) ==
    IF Truthy(cliToken) THEN cliToken
    ELSE IF Truthy(env.BYTEHIDE_SHIELD_TOKEN) THEN env.BYTEHIDE_SHIELD_TOKEN
    ELSE IF Truthy(env.BYTEHIDE_TOKEN) THEN env.BYTEHIDE_TOKEN
    ELSE extractTokenFromConfig(cfg)

\* cli.js: the default of --token is
\* process.env.BYTEHIDE_SHIELD_TOKEN || process.env.BYTEHIDE_TOKEN
CommanderToken(flag, e) ==
    IF flag # "" THEN flag ELSE Or(e.BYTEHIDE_SHIELD_TOKEN, e.BYTEHIDE_TOKEN)

(***************************************************************************)
(* utils/obfuscate.js: the HTTPS exchange.  A response is what the         *)
(* transport delivers: a network error, or a status code and a body.  Of   *)
(* the body the model keeps whether JSON.parse accepts it and the fields   *)
(* the code reads.  Error messages are sequences of strings               *)
(* (a template literal is the sequence of its parts).                      *)
(***************************************************************************)
Response(net, statusCode, json, error, message, output, sourceMap, symbols) ==
    [net |-> net, statusCode |-> statusCode, json |-> json, isNull |-> FALSE,
     error |-> error, message |-> message, output |-> output,
     sourceMap |-> sourceMap, symbols |-> symbols]

\* a response whose body is the JSON text `null`: JSON.parse returns null
\* and reading a property of it throws a TypeError
NullBodyResponse(statusCode) ==
    [Response("ok", statusCode, TRUE, Undefined, Undefined, <<>>, <<>>, <<>>)
        EXCEPT !.isNull = TRUE]

NoResult == [output |-> <<>>, sourceMap |-> <<>>, symbols |-> <<>>]

\* HandleProtectResponse with the status message first: the error body is
\* used only for a status without a message of its own
HandleProtectResponseStatusFirst(res, uniqueId) ==
    IF res.net # "ok"
    THEN [ok |-> FALSE, error |-> <<ConnectionError>>, result |-> NoResult]
    ELSE IF res.statusCode # 200
    THEN IF res.json /\ Truthy(res.error)
            /\ getFriendlyErrorMessage(res.statusCode) = getFriendlyErrorMessage(0)
         THEN IF res.error = "Internal Server Error"
              THEN [ok |-> FALSE, error |-> <<"Protection error: ", res.message>>,
                    result |-> NoResult]
              ELSE [ok |-> FALSE, error |-> <<"Protection error: ", res.error>>,
                    result |-> NoResult]
         ELSE [ok |-> FALSE, error |-> <<getFriendlyErrorMessage(res.statusCode)>>,
               result |-> NoResult]
    ELSE IF ~res.json
    THEN [ok |-> FALSE, error |-> <<"Error processing response: ", "SyntaxError">>,
          result |-> NoResult]
    ELSE IF res.isNull
    THEN [ok |-> FALSE, error |-> <<"Error processing response: ", "TypeError">>,
          result |-> NoResult]
    ELSE IF res.output # <<>>
    THEN [ok |-> TRUE, error |-> <<>>,
          result |-> [output |-> generateWatermark(uniqueId) \o <<"NL">> \o res.output,
                      sourceMap |-> res.sourceMap,
                      symbols |-> res.symbols]]
    ELSE [ok |-> FALSE, error |-> <<"No protected code received in response.">>,
          result |-> NoResult]

\* HandleProtectResponse without the test of result.output: a 200 answer
\* that parses resolves, whatever it holds
HandleProtectResponseAcceptsEmpty(res, uniqueId) ==
    IF res.net # "ok"
    THEN [ok |-> FALSE, error |-> <<ConnectionError>>, result |-> NoResult]
    ELSE IF res.statusCode # 200
    THEN IF res.json /\ ~res.isNull /\ Truthy(res.error)
         THEN [ok |-> FALSE,
               error |-> <<"Protection error: ",
                           IF res.error = "Internal Server Error"
                           THEN res.message ELSE res.error>>,
               result |-> NoResult]
         ELSE [ok |-> FALSE, error |-> <<getFriendlyErrorMessage(res.statusCode)>>,
               result |-> NoResult]
    ELSE IF ~res.json
    THEN [ok |-> FALSE, error |-> <<"Error processing response: ", "SyntaxError">>,
          result |-> NoResult]
    ELSE [ok |-> TRUE, error |-> <<>>,
          result |-> [output |-> generateWatermark(uniqueId) \o <<"NL">> \o res.output,
                      sourceMap |-> res.sourceMap,
                      symbols |-> res.symbols]]

\* req.on('error') and res.on('end') of callBytehideShieldAPI: the promise
\* resolves (ok) with the watermarked result or rejects with an error
HandleProtectResponse(res, uniqueId) ==
    IF res.net # "ok"
    THEN [ok |-> FALSE, error |-> <<ConnectionError>>, result |-> NoResult]
    ELSE IF res.statusCode # 200
    THEN IF res.json /\ ~res.isNull /\ Truthy(res.error)
         THEN IF res.error = "Internal Server Error"
              THEN [ok |-> FALSE, error |-> <<"Protection error: ", res.message>>,
                    result |-> NoResult]
              ELSE [ok |-> FALSE, error |-> <<"Protection error: ", res.error>>,
                    result |-> NoResult]
         ELSE [ok |-> FALSE, error |-> <<getFriendlyErrorMessage(res.statusCode)>>,
               result |-> NoResult]
    ELSE IF ~res.json
    THEN [ok |-> FALSE, error |-> <<"Error processing response: ", "SyntaxError">>,
          result |-> NoResult]
    ELSE IF res.isNull
    THEN [ok |-> FALSE, error |-> <<"Error processing response: ", "TypeError">>,
          result |-> NoResult]
    ELSE IF res.output # <<>>
    THEN [ok |-> TRUE, error |-> <<>>,
          result |-> [output |-> generateWatermark(uniqueId) \o <<"NL">> \o res.output,
                      sourceMap |-> res.sourceMap,
                      symbols |-> res.symbols]]
    ELSE [ok |-> FALSE, error |-> <<"No protected code received in response.">>,
          result |-> NoResult]

\* validateToken: "" when the promise resolves, else the rejection message
HandleValidateResponse(res) ==
    IF res.net # "ok" THEN <<ConnectionError>>
    ELSE IF res.statusCode = 200 THEN <<>>
    ELSE <<getFriendlyErrorMessage(res.statusCode)>>

\* the request validateToken sends
ValidateRequest(tok) ==
    [kind |-> "validate", urlToken |-> tok, code |-> <<>>, projectToken |-> "",
     config |-> JsonObject(<<>>)]

\* the request callBytehideShieldAPI sends: JSON.stringify({code,
\* obfuscationID, projectToken: token, config})
ProtectRequest(code, tok, cfg) ==
    [kind |-> "protect", urlToken |-> tok, code |-> code, projectToken |-> tok,
     config |-> JsonObject(cfg)]

\* what generateRandomID may return, two representatives
RandomIDs == {"id1", "id2"}

\* the answers of the service explored for a protection request
ProtectResponses ==
    { Response("ok", 200, TRUE, "", "", <<"obf">>, <<"map">>, <<"sym">>),
      Response("ok", 200, TRUE, "", "", <<"PFX", "obf2">>, <<>>, <<>>),
      Response("ok", 200, TRUE, "", "", <<>>, <<>>, <<>>),
      Response("ok", 200, FALSE, "", "", <<>>, <<>>, <<>>),
      NullBodyResponse(200),
      Response("ok", 429, FALSE, "", "", <<>>, <<>>, <<>>),
      Response("ok", 429, TRUE, "Too Many Requests", "", <<>>, <<>>, <<>>),
      Response("ok", 400, TRUE, "Invalid config", "", <<>>, <<>>, <<>>),
      Response("ok", 500, TRUE, "Internal Server Error", "boom", <<>>, <<>>, <<>>),
      Response("error", 0, FALSE, "", "", <<>>, <<>>, <<>>) }

\* the answers of the service explored for the token validation request
ValidateResponses ==
    { Response("ok", 200, TRUE, "", "", <<>>, <<>>, <<>>),
      Response("ok", 401, TRUE, "", "", <<>>, <<>>, <<>>),
      Response("error", 0, FALSE, "", "", <<>>, <<>>, <<>>) }

(***************************************************************************)
(* The runs explored: command lines, environments and file systems.        *)
(***************************************************************************)
A_JS == <<"a", ".js">>
B_JS == <<"src", "/", "b", ".js">>
SRC_A_JS == <<"src", "/", "a", ".js">>
C_MJS == <<"src", "/", "c", ".mjs">>
A_PROT == <<"a", ".protected", ".js">>
LIB_DIR == <<"lib", ".js">>
D_JS == LIB_DIR \o <<"/", "d", ".js">>
V_MIN_JS == <<"v", ".js", ".min", ".js">>
NOTES == <<"notes", ".txt">>
OUT_FILE == <<"out", "/", "o", ".js">>
DIST == <<"dist">>
MAP_CUSTOM == <<"maps", "/", "o", ".map">>
SYM_CUSTOM == <<"syms", "/", "o", ".json">>
MY_JSON == <<"my", ".json">>
MY_YAML == <<"my", ".yaml">>
SRC_CFG == <<"src", "/", "shield.config", ".json">>
PROT_EXT == <<".protected">>

PlainSource == <<"source">>

\* a file as an earlier successful run wrote it: byte-order mark, watermark
\* line, protected code
ProtectedOutput ==
    addBOM(generateWatermark(<<"0", "1", "2", "3", "a", "b", "c", "d">>)
           \o <<"NL", "obf0">>)

\* glob results: empty, without JavaScript, single, duplicated by two
\* patterns, in a directory or with a name that contains ".js", several
\* files, a source beside its protected output, two files of the same name
\* in different directories
AllBatches ==
    { <<>>, <<NOTES>>, <<A_JS>>, <<C_MJS>>, <<A_JS, A_JS>>, <<B_JS, NOTES>>,
      <<D_JS>>, <<V_MIN_JS>>, <<A_JS, B_JS>>, <<A_JS, A_PROT>>, <<A_JS, SRC_A_JS>>,
      <<A_JS, B_JS, C_MJS>> }

Batches == {b \in AllBatches : Len(b) <= MaxMatched}

\* "fresh": the sources are unprotected; "rerun": a.js was protected in
\* place by an earlier run, which left a.js.backup
Variants == {"fresh", "rerun"}

InitialContent(p, variant) ==
    IF p = A_PROT \/ (p = A_JS /\ variant = "rerun")
    THEN ProtectedOutput ELSE PlainSource

InitialFiles(batch, variant) ==
    LET present == Range(batch) \cup
                   (IF variant = "rerun" /\ A_JS \in Range(batch)
                    THEN {BackupPath(A_JS)} ELSE {})
    IN  [p \in present |-> IF p = BackupPath(A_JS) THEN PlainSource
                           ELSE InitialContent(p, variant)]

CfgFile(parse, obj) == [parse |-> parse, obj |-> obj]

CfgEmpty == CfgFile("ok", <<>>)
CfgPT == CfgFile("ok", [ProjectToken |-> "cfgTokP", controlFlowFlattening |-> "false"])
CfgLower == CfgFile("ok", [projectToken |-> "cfgTokp", stringArray |-> "true"])
CfgBoth == CfgFile("ok", [ProjectToken |-> "cfgTokP", projectToken |-> "cfgTokp"])
CfgBad == CfgFile("malformed", <<>>)
CfgAbsent == CfgFile("absent", <<>>)

\* the configuration files of a file system: the working directory's, the
\* one in src/, and the two a --config option may name
CfgFs(cwd, src, my, yaml) ==
    LET all == [p \in {DEFAULT_CONFIG_FILE, SRC_CFG, MY_JSON, MY_YAML} |->
                   IF p = DEFAULT_CONFIG_FILE THEN cwd
                   ELSE IF p = SRC_CFG THEN src
                   ELSE IF p = MY_JSON THEN my ELSE yaml]
    IN  [p \in {x \in DOMAIN all : all[x].parse # "absent"} |-> all[p]]

CfgSetup(opt, fs) == [config |-> opt, cfgFiles |-> fs]

CfgSetups ==
    { CfgSetup(NoPath, CfgFs(CfgAbsent, CfgAbsent, CfgAbsent, CfgAbsent)),
      CfgSetup(NoPath, CfgFs(CfgEmpty, CfgAbsent, CfgAbsent, CfgAbsent)),
      CfgSetup(NoPath, CfgFs(CfgPT, CfgAbsent, CfgAbsent, CfgAbsent)),
      CfgSetup(NoPath, CfgFs(CfgLower, CfgAbsent, CfgAbsent, CfgAbsent)),
      CfgSetup(NoPath, CfgFs(CfgBoth, CfgAbsent, CfgAbsent, CfgAbsent)),
      CfgSetup(NoPath, CfgFs(CfgBad, CfgAbsent, CfgAbsent, CfgAbsent)),
      CfgSetup(NoPath, CfgFs(CfgAbsent, CfgPT, CfgAbsent, CfgAbsent)),
      CfgSetup(NoPath, CfgFs(CfgLower, CfgPT, CfgAbsent, CfgAbsent)),
      CfgSetup(NoPath, CfgFs(CfgAbsent, CfgAbsent, CfgPT, CfgAbsent)),
      CfgSetup(MY_JSON, CfgFs(CfgAbsent, CfgAbsent, CfgEmpty, CfgAbsent)),
      CfgSetup(MY_JSON, CfgFs(CfgAbsent, CfgAbsent, CfgPT, CfgAbsent)),
      CfgSetup(MY_JSON, CfgFs(CfgAbsent, CfgAbsent, CfgBad, CfgAbsent)),
      CfgSetup(MY_JSON, CfgFs(CfgLower, CfgAbsent, CfgPT, CfgAbsent)),
      CfgSetup(MY_JSON, CfgFs(CfgPT, CfgAbsent, CfgAbsent, CfgAbsent)),
      CfgSetup(MY_JSON, CfgFs(CfgAbsent, CfgPT, CfgAbsent, CfgAbsent)),
      CfgSetup(MY_JSON, CfgFs(CfgAbsent, CfgAbsent, CfgAbsent, CfgAbsent)),
      CfgSetup(MY_YAML, CfgFs(CfgAbsent, CfgAbsent, CfgAbsent, CfgPT)) }

Env(shieldToken, legacyToken) ==
    [BYTEHIDE_SHIELD_TOKEN |-> shieldToken, BYTEHIDE_TOKEN |-> legacyToken]

\* the options object commander builds from the command line (cli.js)
Options(cfgPath, flag, e, outputExt, dryRun, backup, output, outputDir, sourceMap, sourceMapPath, symbols, symbolsPath) ==
    [config |-> cfgPath, token |-> CommanderToken(flag, e),
     outputExt |-> outputExt, dryRun |-> dryRun, backup |-> backup,
     output |-> output, outputDir |-> outputDir,
     sourceMap |-> sourceMap, sourceMapPath |-> sourceMapPath,
     symbols |-> symbols, symbolsPath |-> symbolsPath]

Scenario(opts, e, batch, variant, extraDirs, fs) ==
    [options |-> opts, env |-> e, matched |-> batch,
     files |-> InitialFiles(batch, variant),
     dirs |-> {Dot, <<"src">>, LIB_DIR} \cup extraDirs, cfgFiles |-> fs]

\* runs that differ in where the configuration and the token come from
PreconditionScenarios ==
    { Scenario(Options(c.config, flag, Env(e1, e2), <<>>, FALSE, TRUE, NoPath,
                       NoPath, FALSE, NoPath, FALSE, NoPath),
               Env(e1, e2), batch, "fresh", {}, c.cfgFiles) :
        c \in CfgSetups, flag \in {"", "cliTok"}, e1 \in {"", "envTok1"},
        e2 \in {"", "envTok2"}, batch \in {<<A_JS>>, <<B_JS>>, <<NOTES>>} }

\* (output, outputDir, outputExt)
PathOptions ==
    { <<NoPath, NoPath, <<>> >>, <<NoPath, NoPath, PROT_EXT>>,
      <<NoPath, DIST, <<>> >>, <<NoPath, DIST, PROT_EXT>>,
      <<OUT_FILE, NoPath, <<>> >>, <<OUT_FILE, DIST, PROT_EXT>> }

\* runs that differ in the batch and in where the output goes
OutputScenarios ==
    { Scenario(Options(NoPath, "cliTok", Env("", ""), po[3], dryRun, backup,
                       po[1], po[2], FALSE, NoPath, FALSE, NoPath),
               Env("", ""), batch, variant, extraDirs,
               CfgFs(CfgEmpty, CfgAbsent, CfgAbsent, CfgAbsent)) :
        po \in PathOptions, dryRun \in BOOLEAN, backup \in BOOLEAN,
        batch \in Batches, variant \in Variants,
        extraDirs \in {{}, {DIST, <<"out">>}} }

\* (sourceMap, sourceMapPath, symbols, symbolsPath)
SideFileOptions ==
    { <<TRUE, NoPath, TRUE, NoPath>>, <<TRUE, NoPath, FALSE, NoPath>>,
      <<FALSE, NoPath, TRUE, NoPath>>, <<TRUE, MAP_CUSTOM, FALSE, NoPath>>,
      <<FALSE, NoPath, TRUE, SYM_CUSTOM>>, <<TRUE, MAP_CUSTOM, TRUE, SYM_CUSTOM>>,
      <<FALSE, MAP_CUSTOM, FALSE, NoPath>> }

\* runs that differ in the source map and symbols options
SideFileScenarios ==
    { Scenario(Options(NoPath, "cliTok", Env("", ""), po[3], dryRun, FALSE,
                       po[1], po[2], so[1], so[2], so[3], so[4]),
               Env("", ""), batch, "fresh", {DIST},
               CfgFs(CfgEmpty, CfgAbsent, CfgAbsent, CfgAbsent)) :
        po \in { <<NoPath, NoPath, <<>> >>, <<NoPath, DIST, PROT_EXT>> },
        so \in SideFileOptions, dryRun \in BOOLEAN,
        batch \in {<<A_JS>>, <<A_JS, B_JS>>} }

\* runs with both --output and --output-dir where only the directory of
\* --output exists
OutputAndDirScenarios ==
    { Scenario(Options(NoPath, "cliTok", Env("", ""), <<>>, dryRun, backup,
                       OUT_FILE, DIST, FALSE, NoPath, FALSE, NoPath),
               Env("", ""), batch, "fresh", {<<"out">>},
               CfgFs(CfgEmpty, CfgAbsent, CfgAbsent, CfgAbsent)) :
        dryRun \in BOOLEAN, backup \in BOOLEAN,
        batch \in {<<A_JS>>, <<A_JS, B_JS>>} }

Scenarios ==
    PreconditionScenarios \cup OutputScenarios \cup SideFileScenarios
        \cup OutputAndDirScenarios

Idle == [file |-> NoPath, outputPath |-> NoPath, fileContent |-> <<>>,
         result |-> NoResult]

Init ==
    \E s \in Scenarios :
        /\ options = s.options
        /\ env = s.env
        /\ matched = s.matched
        /\ files = s.files
        /\ files0 = s.files
        /\ dirs = s.dirs
        /\ cfgFiles = s.cfgFiles
        /\ pc = "discover"
        /\ allFiles = <<>>
        /\ config = DEFAULT_CONFIG
        /\ token = ""
        /\ i = 0
        /\ cur = Idle
        /\ successCount = 0 /\ failCount = 0 /\ skippedCount = 0
        /\ failedFiles = <<>> /\ skippedFiles = <<>>
        /\ inflight = <<>> /\ netLog = <<>> /\ answers = <<>> /\ fsLog = <<>>
        /\ probes = <<>> /\ stdout = <<>>
        /\ fatal = "" /\ exitCode = NoExit
        /\ deletes = {}
        /\ wrapper = Spawned
        /\ call = NotCalled

(***************************************************************************)
(* File-system effects.                                                    *)
(***************************************************************************)
\* a directory with the directories above it (mkdir with recursive: true)
RECURSIVE WithAncestors(_)
WithAncestors(dir) ==
    IF dir = Dot \/ dir = <<>> THEN {}
    ELSE {dir} \cup WithAncestors(Dirname(dir))

\* the file system after fs.writeFile(path, content) / fs.copyFile(_, path)
Written(path, content) ==
    [p \in DOMAIN files \cup {path} |-> IF p = path THEN content ELSE files[p]]

\* the log after utils/files.js writeFile(path, _): the directory is
\* created first when it does not exist
WriteLogged(path) ==
    fsLog \o (IF Dirname(path) \in dirs THEN <<>>
              ELSE << [op |-> "mkdir", path |-> Dirname(path)] >>)
          \o << [op |-> "write", path |-> path] >>

(***************************************************************************)
(* protect(): the run-level steps.                                         *)
(***************************************************************************)
runVars == <<options, env, matched, files0, cfgFiles, wrapper, call>>
loopVars == <<i, cur, successCount, failCount, skippedCount, failedFiles,
              skippedFiles>>

\* process.exit(code), or the end of protect() with code 0
Exit(code, class) ==
    /\ pc' = "exited"
    /\ exitCode' = code
    /\ fatal' = class

\* Discover without the zero-match exit: the run goes on to loadConfig
DiscoverContinues ==
    /\ pc = "discover"
    /\ allFiles' = FilterJs(Dedup(matched))
    /\ pc' = "loadConfig"
    /\ UNCHANGED <<runVars, answers, loopVars, files, dirs, config, token, inflight,
                   netLog, fsLog, probes, stdout, deletes, exitCode, fatal>>

\* glob, de-duplication, extension filter; no match ends the run with code 0
Discover ==
    /\ pc = "discover"
    /\ allFiles' = FilterJs(Dedup(matched))
    /\ IF allFiles' = <<>>
       THEN Exit(0, "")
       ELSE pc' = "loadConfig" /\ UNCHANGED <<exitCode, fatal>>
    /\ UNCHANGED <<runVars, answers, loopVars, files, dirs, config, token, inflight,
                   netLog, fsLog, probes, stdout, deletes>>

\* loadConfig(options.config, allFiles, !options.config); a process.exit in
\* validateConfigRequirement or an exception caught at the end of protect()
LoadConfig ==
    /\ pc = "loadConfig"
    /\ LET r == loadConfig(options.config, allFiles, options.config = NoPath) IN
        /\ probes' = r.probes
        /\ IF r.end = "return"
           THEN /\ config' = r.config
                /\ pc' = "getToken"
                /\ UNCHANGED <<exitCode, fatal>>
           ELSE /\ Exit(1, r.error)
                /\ UNCHANGED config
    /\ UNCHANGED <<runVars, answers, loopVars, files, dirs, allFiles, token, inflight,
                   netLog, fsLog, stdout, deletes>>

\* getToken(options.token, config) and the check that a token was found
GetToken ==
    /\ pc = "getToken"
    /\ token' = getToken(options.token, config)
    /\ IF ~Truthy(token')
       THEN Exit(1, "TokenMissing")
       ELSE pc' = "validateToken" /\ UNCHANGED <<exitCode, fatal>>
    /\ UNCHANGED <<runVars, answers, loopVars, files, dirs, allFiles, config, inflight,
                   netLog, fsLog, probes, stdout, deletes>>

\* validateToken(token): the request is written to the socket
SendValidate ==
    /\ pc = "validateToken"
    /\ inflight' = Append(inflight, ValidateRequest(token))
    /\ netLog' = Append(netLog, ValidateRequest(token))
    /\ pc' = "awaitValidate"
    /\ UNCHANGED <<runVars, answers, loopVars, files, dirs, allFiles, config, token,
                   fsLog, probes, stdout, fatal, exitCode, deletes>>

\* a response as the history keeps it: the file whose request it answers
\* (none for the token validation), the loop index and the identifier
\* generateWatermark drew for it (none when the call failed)
Answer(file, index, res, uniqueId) ==
    [file |-> file, index |-> index, res |-> res, uniqueId |-> uniqueId]

\* the answer to the validation request: resolve, or reject and exit(1)
ValidateAnswered ==
    /\ pc = "awaitValidate"
    /\ \E res \in ValidateResponses :
        /\ IF HandleValidateResponse(res) = <<>>
           THEN pc' = "validateOptions" /\ UNCHANGED <<exitCode, fatal>>
           ELSE Exit(1, "TokenInvalid")
        /\ answers' = Append(answers, Answer(NoPath, i, res, <<>>))
    /\ inflight' = <<>>
    /\ UNCHANGED <<runVars, loopVars, files, dirs, allFiles, config, token,
                   netLog, fsLog, probes, stdout, deletes>>

\* ValidateOptions reporting the error without process.exit(1)
ValidateOptionsWarnOnly ==
    /\ pc = "validateOptions"
    /\ pc' = IF options.dryRun THEN "dryRun" ELSE "loop"
    /\ UNCHANGED <<runVars, answers, loopVars, files, dirs, allFiles, config, token,
                   inflight, netLog, fsLog, probes, stdout, deletes, exitCode,
                   fatal>>

\* validateOutputOptions(allFiles, options), then the dry-run branch
ValidateOptions ==
    /\ pc = "validateOptions"
    /\ IF validateOutputOptions(allFiles, options) # ""
       THEN Exit(1, "OptionError")
       ELSE /\ pc' = IF options.dryRun THEN "dryRun" ELSE "loop"
            /\ UNCHANGED <<exitCode, fatal>>
    /\ UNCHANGED <<runVars, answers, loopVars, files, dirs, allFiles, config, token,
                   inflight, netLog, fsLog, probes, stdout, deletes>>

\* allFiles.forEach(file => console.log(outputInfo)); process.exit(0)
DryRun ==
    /\ pc = "dryRun"
    /\ stdout' = [k \in 1..Len(allFiles) |-> DryRunLine(allFiles[k], allFiles, options)]
    /\ Exit(0, "")
    /\ UNCHANGED <<runVars, answers, loopVars, files, dirs, allFiles, config, token,
                   inflight, netLog, fsLog, probes, deletes>>

(***************************************************************************)
(* protect(): the processing loop, one action per step between two         *)
(* suspension points of the iteration and of obfuscateFile.                *)
(***************************************************************************)
\* RecordCaught without the iteration's own try/catch: the exception reaches
\* the catch at the end of protect(), which exits with code 1
RecordCaughtAborts(file, message) ==
    /\ Exit(1, "PerFileError")
    /\ UNCHANGED <<loopVars>>

\* RecordCaught counting an already protected file as a failure as well
RecordCaughtCountsTwice(file, message) ==
    /\ IF message = <<AlreadyProtectedError>>
       THEN /\ skippedFiles' = Append(skippedFiles,
                                      [file |-> file, reason |-> "Already protected"])
            /\ skippedCount' = skippedCount + 1
            /\ failCount' = failCount + 1
            /\ UNCHANGED <<failedFiles>>
       ELSE /\ failedFiles' = Append(failedFiles, [file |-> file, error |-> message])
            /\ failCount' = failCount + 1
            /\ UNCHANGED <<skippedFiles, skippedCount>>
    /\ i' = i + 1
    /\ cur' = Idle
    /\ pc' = "loop"
    /\ UNCHANGED <<successCount, exitCode, fatal>>

\* the catch block of the iteration, then progressBar.update(i + 1) and i++
RecordCaught(file, message) ==
    /\ IF message = <<AlreadyProtectedError>>
       THEN /\ skippedFiles' = Append(skippedFiles,
                                      [file |-> file, reason |-> "Already protected"])
            /\ skippedCount' = skippedCount + 1
            /\ UNCHANGED <<failedFiles, failCount>>
       ELSE /\ failedFiles' = Append(failedFiles, [file |-> file, error |-> message])
            /\ failCount' = failCount + 1
            /\ UNCHANGED <<skippedFiles, skippedCount>>
    /\ i' = i + 1
    /\ cur' = Idle
    /\ pc' = "loop"
    /\ UNCHANGED <<successCount, exitCode, fatal>>

\* BeginFile recording a missing file as skipped instead of failed
BeginFileSkipsMissing ==
    /\ pc = "loop"
    /\ i < Len(allFiles)
    /\ LET file == allFiles[i + 1] IN
        IF file \notin DOMAIN files
        THEN /\ skippedFiles' = Append(skippedFiles,
                                       [file |-> file, reason |-> "File not found"])
             /\ skippedCount' = skippedCount + 1
             /\ i' = i + 1
             /\ UNCHANGED <<pc, cur, failedFiles, failCount>>
        ELSE /\ cur' = [Idle EXCEPT !.file = file,
                                    !.outputPath = getOutputPath(file, options)]
             /\ pc' = "ensureDir"
             /\ UNCHANGED <<failedFiles, failCount, i, skippedFiles, skippedCount>>
    /\ UNCHANGED <<runVars, answers, files, dirs, allFiles, config, token, successCount,
                   inflight, netLog, fsLog, probes, stdout, fatal, exitCode, deletes>>

\* top of an iteration: a missing file is recorded and skipped with
\* `continue`, else the iteration starts
BeginFile ==
    /\ pc = "loop"
    /\ i < Len(allFiles)
    /\ LET file == allFiles[i + 1] IN
        IF file \notin DOMAIN files
        THEN /\ failedFiles' = Append(failedFiles,
                                      [file |-> file, error |-> <<"File not found">>])
             /\ failCount' = failCount + 1
             /\ i' = i + 1
             /\ UNCHANGED <<pc, cur>>
        ELSE /\ cur' = [Idle EXCEPT !.file = file,
                                    !.outputPath = getOutputPath(file, options)]
             /\ pc' = "ensureDir"
             /\ UNCHANGED <<failedFiles, failCount, i>>
    /\ UNCHANGED <<runVars, answers, files, dirs, allFiles, config, token, successCount,
                   skippedCount, skippedFiles, inflight, netLog, fsLog, probes,
                   stdout, fatal, exitCode, deletes>>

\* if (!existsSync(outputDir)) await fs.mkdir(outputDir, { recursive: true })
EnsureDir ==
    /\ pc = "ensureDir"
    /\ LET outputDir == Dirname(cur.outputPath) IN
        IF outputDir \in dirs
        THEN /\ pc' = "backup"
             /\ UNCHANGED <<loopVars, dirs, fsLog, exitCode, fatal>>
        ELSE \E ok \in BOOLEAN :
                IF ok
                THEN /\ dirs' = dirs \cup WithAncestors(outputDir)
                     /\ fsLog' = Append(fsLog, [op |-> "mkdir", path |-> outputDir])
                     /\ pc' = "backup"
                     /\ UNCHANGED <<loopVars, exitCode, fatal>>
                ELSE /\ RecordCaught(cur.file, <<"EACCES: mkdir">>)
                     /\ UNCHANGED <<dirs, fsLog>>
    /\ UNCHANGED <<runVars, answers, files, allFiles, config, token, inflight, netLog,
                   probes, stdout, deletes>>

\* Backup without the copy: obfuscateFile is called at once
BackupNever ==
    /\ pc = "backup"
    /\ pc' = "read"
    /\ UNCHANGED <<loopVars, files, fsLog, exitCode, fatal>>
    /\ UNCHANGED <<runVars, answers, dirs, allFiles, config, token, inflight, netLog,
                   probes, stdout, deletes>>

\* Backup with a failing copy swallowed: the file is processed without one
BackupBestEffort ==
    /\ pc = "backup"
    /\ \E ok \in BOOLEAN :
          IF ok /\ options.backup
          THEN /\ files' = Written(BackupPath(cur.file), files[cur.file])
               /\ fsLog' = Append(fsLog, [op |-> "copy",
                                          path |-> BackupPath(cur.file)])
          ELSE UNCHANGED <<files, fsLog>>
    /\ pc' = "read"
    /\ UNCHANGED <<loopVars, exitCode, fatal>>
    /\ UNCHANGED <<runVars, answers, dirs, allFiles, config, token, inflight, netLog,
                   probes, stdout, deletes>>

\* if (options.backup) await createBackup(file)
Backup ==
    /\ pc = "backup"
    /\ IF ~options.backup
       THEN /\ pc' = "read"
            /\ UNCHANGED <<loopVars, files, fsLog, exitCode, fatal>>
       ELSE \E ok \in BOOLEAN :
                IF ok
                THEN /\ files' = Written(BackupPath(cur.file), files[cur.file])
                     /\ fsLog' = Append(fsLog, [op |-> "copy",
                                                path |-> BackupPath(cur.file)])
                     /\ pc' = "read"
                     /\ UNCHANGED <<loopVars, exitCode, fatal>>
                ELSE /\ RecordCaught(cur.file, <<"EACCES: copyfile">>)
                     /\ UNCHANGED <<files, fsLog>>
    /\ UNCHANGED <<runVars, answers, dirs, allFiles, config, token, inflight, netLog,
                   probes, stdout, deletes>>

\* ReadAndRequest with the call not awaited: the request is sent and the
\* loop goes on to the next file at once
ReadAndRequestNoAwait ==
    /\ pc = "read"
    /\ LET fileContent == files[cur.file] IN
        /\ \E obfuscationID \in RandomIDs :
               inflight' = Append(inflight,
                   [id |-> obfuscationID,
                    request |-> ProtectRequest(fileContent, token, config)])
        /\ netLog' = Append(netLog, ProtectRequest(fileContent, token, config))
    /\ successCount' = successCount + 1
    /\ i' = i + 1
    /\ cur' = Idle
    /\ pc' = "loop"
    /\ UNCHANGED <<runVars, answers, files, dirs, allFiles, config, token, fsLog, probes,
                   stdout, deletes, failCount, skippedCount, failedFiles,
                   skippedFiles, exitCode, fatal>>

\* obfuscateFile up to the first suspension in callBytehideShieldAPI: read
\* the file, apply the guard, send the protection request
ReadAndRequest ==
    /\ pc = "read"
    /\ LET fileContent == files[cur.file] IN
        IF isAlreadyObfuscated(fileContent)
        THEN /\ RecordCaught(cur.file, <<AlreadyProtectedError>>)
             /\ UNCHANGED <<inflight, netLog>>
        ELSE /\ cur' = [cur EXCEPT !.fileContent = fileContent]
             /\ \E obfuscationID \in RandomIDs :
                    inflight' = Append(inflight,
                        [id |-> obfuscationID,
                         request |-> ProtectRequest(fileContent, token, config)])
             /\ netLog' = Append(netLog, ProtectRequest(fileContent, token, config))
             /\ pc' = "await"
             /\ UNCHANGED <<i, successCount, failCount, skippedCount, failedFiles,
                            skippedFiles, exitCode, fatal>>
    /\ UNCHANGED <<runVars, answers, files, dirs, allFiles, config, token, fsLog, probes,
                   stdout, deletes>>

\* the answer to the protection request, one of `responses`, settles the
\* promise
ProtectAnsweredFrom(responses) ==
    /\ pc = "await"
    /\ \E res \in responses, uniqueId \in WatermarkIds :
        LET r == HandleProtectResponse(res, uniqueId) IN
        /\ IF r.ok
           THEN /\ cur' = [cur EXCEPT !.result = r.result]
                /\ pc' = "writeCode"
                /\ UNCHANGED <<i, successCount, failCount, skippedCount, failedFiles,
                               skippedFiles, exitCode, fatal>>
           ELSE RecordCaught(cur.file, r.error)
        /\ answers' = Append(answers, Answer(cur.file, i, res,
                                             IF r.ok THEN uniqueId ELSE <<>>))
    /\ inflight' = <<>>
    /\ UNCHANGED <<runVars, files, dirs, allFiles, config, token, netLog, fsLog,
                   probes, stdout, deletes>>

ProtectAnswered == ProtectAnsweredFrom(ProtectResponses)

\* one call of utils/files.js writeFile from obfuscateFile: it writes and
\* goes on to `next`, or throws
WriteStep(path, content, next) ==
    \E ok \in BOOLEAN :
        IF ok
        THEN /\ files' = Written(path, content)
             /\ dirs' = dirs \cup WithAncestors(Dirname(path))
             /\ fsLog' = WriteLogged(path)
             /\ next
        ELSE /\ RecordCaught(cur.file, <<"EACCES: write">>)
             /\ UNCHANGED <<files, dirs, fsLog>>

\* obfuscateFile returns: successCount++, progressBar.update(i + 1), i++
FileDone ==
    /\ successCount' = successCount + 1
    /\ i' = i + 1
    /\ cur' = Idle
    /\ pc' = "loop"
    /\ UNCHANGED <<failCount, skippedCount, failedFiles, skippedFiles, exitCode,
                   fatal>>

GoTo(label) ==
    /\ pc' = label
    /\ UNCHANGED <<loopVars, exitCode, fatal>>

\* await writeFile(finalOutputPath, addBOM(obfuscationResult.output))
WriteCode ==
    /\ pc = "writeCode"
    /\ WriteStep(cur.outputPath, addBOM(cur.result.output), GoTo("writeMap"))
    /\ UNCHANGED <<runVars, answers, allFiles, config, token, inflight, netLog, probes,
                   stdout, deletes>>

\* if (generateSourceMap && obfuscationResult.sourceMap) await writeFile(...)
WriteMap ==
    /\ pc = "writeMap"
    /\ IF options.sourceMap /\ cur.result.sourceMap # <<>>
       THEN WriteStep(getSourceMapPath(cur.outputPath,
                          IF Len(allFiles) = 1 THEN options.sourceMapPath ELSE NoPath),
                      cur.result.sourceMap, GoTo("writeSymbols"))
       ELSE GoTo("writeSymbols") /\ UNCHANGED <<files, dirs, fsLog>>
    /\ UNCHANGED <<runVars, answers, allFiles, config, token, inflight, netLog, probes,
                   stdout, deletes>>

\* if (saveSymbols && obfuscationResult.symbols) await writeFile(...,
\* JSON.stringify(symbols, null, 2)); then obfuscateFile returns
WriteSymbols ==
    /\ pc = "writeSymbols"
    /\ IF options.symbols /\ cur.result.symbols # <<>>
       THEN WriteStep(getSymbolsPath(cur.outputPath,
                          IF Len(allFiles) = 1 THEN options.symbolsPath ELSE NoPath),
                      <<"json:">> \o cur.result.symbols, FileDone)
       ELSE FileDone /\ UNCHANGED <<files, dirs, fsLog>>
    /\ UNCHANGED <<runVars, answers, allFiles, config, token, inflight, netLog, probes,
                   stdout, deletes>>

\* Summary ending with process.exit(failCount > 0 ? 1 : 0)
SummaryFailsOnFailures ==
    /\ pc = "loop"
    /\ i >= Len(allFiles)
    /\ stdout' = << [total |-> Len(allFiles), success |-> successCount,
                     skipped |-> skippedCount, failed |-> failCount,
                     skippedFiles |-> skippedFiles, failedFiles |-> failedFiles] >>
    /\ Exit(IF failCount > 0 THEN 1 ELSE 0, "")
    /\ UNCHANGED <<runVars, answers, loopVars, files, dirs, allFiles, config, token,
                   inflight, netLog, fsLog, probes, deletes>>

\* Summary without the end of the run: the summary is printed and the
\* process stays alive
SummaryKeepsRunning ==
    /\ pc = "loop"
    /\ i >= Len(allFiles)
    /\ stdout' = << [total |-> Len(allFiles), success |-> successCount,
                     skipped |-> skippedCount, failed |-> failCount,
                     skippedFiles |-> skippedFiles, failedFiles |-> failedFiles] >>
    /\ UNCHANGED <<pc, exitCode, fatal>>
    /\ UNCHANGED <<runVars, answers, loopVars, files, dirs, allFiles, config, token,
                   inflight, netLog, fsLog, probes, deletes>>

\* after the loop: the summary is printed and protect() returns
Summary ==
    /\ pc = "loop"
    /\ i >= Len(allFiles)
    /\ stdout' = << [total |-> Len(allFiles), success |-> successCount,
                     skipped |-> skippedCount, failed |-> failCount,
                     skippedFiles |-> skippedFiles, failedFiles |-> failedFiles] >>
    /\ Exit(0, "")
    /\ UNCHANGED <<runVars, answers, loopVars, files, dirs, allFiles, config, token,
                   inflight, netLog, fsLog, probes, deletes>>

\* another process removes a file that is still to be processed
ExternalDelete ==
    /\ pc = "loop"
    /\ Cardinality(deletes) < MaxDeletes
    /\ \E k \in (i + 1)..Len(allFiles) :
        /\ allFiles[k] \in DOMAIN files
        /\ files' = [p \in DOMAIN files \ {allFiles[k]} |-> files[p]]
        /\ deletes' = deletes \cup {allFiles[k]}
    /\ UNCHANGED <<runVars, answers, loopVars, pc, dirs, allFiles, config, token, inflight,
                   netLog, fsLog, probes, stdout, fatal, exitCode>>

Next ==
    \/ Discover
    \/ LoadConfig
    \/ GetToken
    \/ SendValidate
    \/ ValidateAnswered
    \/ ValidateOptions
    \/ DryRun
    \/ BeginFile
    \/ EnsureDir
    \/ Backup
    \/ ReadAndRequest
    \/ ProtectAnswered
    \/ WriteCode
    \/ WriteMap
    \/ WriteSymbols
    \/ Summary
    \/ ExternalDelete

Spec == Init /\ [][Next]_vars

\* the steps of the run itself: every step of Next but the deletion by
\* another process
RunStep ==
    \/ Discover
    \/ LoadConfig
    \/ GetToken
    \/ SendValidate
    \/ ValidateAnswered
    \/ ValidateOptions
    \/ DryRun
    \/ BeginFile
    \/ EnsureDir
    \/ Backup
    \/ ReadAndRequest
    \/ ProtectAnswered
    \/ WriteCode
    \/ WriteMap
    \/ WriteSymbols
    \/ Summary

\* the run under the assumption that every request is answered (by a
\* response or a network error) and every file-system call returns: the
\* event loop then always takes the next step of protect()
SpecLive == Spec /\ WF_vars(RunStep)

(***************************************************************************)
(* getToken called on its own (it is exported): every combination of the   *)
(* five token sources, each unset, empty or set.                           *)
(***************************************************************************)
TokenConfigs ==
    { MergeConfig([k \in keys |-> IF k = "ProjectToken" THEN pt ELSE lt]) :
        keys \in SUBSET TokenKeys, pt \in {"", "cfgTokP"}, lt \in {"", "cfgTokp"} }
    \cup {DEFAULT_CONFIG}

InitToken ==
    \E cliToken \in {"", "cliTok"}, e1 \in {"", "envTok1"}, e2 \in {"", "envTok2"},
       cfg \in TokenConfigs :
        /\ options = [Options(NoPath, "", Env("", ""), <<>>, FALSE, TRUE, NoPath,
                              NoPath, FALSE, NoPath, FALSE, NoPath)
                      EXCEPT !.token = cliToken]
        /\ env = Env(e1, e2)
        /\ config = cfg
        /\ matched = <<A_JS>>
        /\ files = InitialFiles(<<A_JS>>, "fresh")
        /\ files0 = files
        /\ dirs = {Dot}
        /\ cfgFiles = CfgFs(CfgAbsent, CfgAbsent, CfgAbsent, CfgAbsent)
        /\ pc = "getToken"
        /\ allFiles = <<A_JS>>
        /\ token = ""
        /\ i = 0
        /\ cur = Idle
        /\ successCount = 0 /\ failCount = 0 /\ skippedCount = 0
        /\ failedFiles = <<>> /\ skippedFiles = <<>>
        /\ inflight = <<>> /\ netLog = <<>> /\ answers = <<>> /\ fsLog = <<>>
        /\ probes = <<>> /\ stdout = <<>>
        /\ fatal = "" /\ exitCode = NoExit
        /\ deletes = {}
        /\ wrapper = Spawned
        /\ call = NotCalled

SpecToken == InitToken /\ [][GetToken]_vars

(***************************************************************************)
(* A run of `shield protect a.js --no-backup --token cliTok` stopped       *)
(* inside the iteration of its only file: the state protect() is in at     *)
(* position `label` when a.js holds `content`.                             *)
(***************************************************************************)
DefaultOptions ==
    Options(NoPath, "cliTok", Env("", ""), <<>>, FALSE, FALSE, NoPath, NoPath, FALSE, NoPath, FALSE, NoPath)

ValidateOk == Response("ok", 200, TRUE, "", "", <<>>, <<>>, <<>>)

InIteration(label, content, sent) ==
    /\ options = DefaultOptions
    /\ env = Env("", "")
    /\ matched = <<A_JS>>
    /\ files = [p \in {A_JS} |-> content]
    /\ files0 = files
    /\ dirs = {Dot}
    /\ cfgFiles = CfgFs(CfgEmpty, CfgAbsent, CfgAbsent, CfgAbsent)
    /\ pc = label
    /\ allFiles = <<A_JS>>
    /\ config = MergeConfig(CfgEmpty.obj)
    /\ token = "cliTok"
    /\ i = 0
    /\ cur = [Idle EXCEPT !.file = A_JS, !.outputPath = A_JS,
                          !.fileContent = IF sent THEN content ELSE <<>>]
    /\ successCount = 0 /\ failCount = 0 /\ skippedCount = 0
    /\ failedFiles = <<>> /\ skippedFiles = <<>>
    /\ inflight = IF sent
                  THEN << [id |-> "id1",
                           request |-> ProtectRequest(content, "cliTok", config)] >>
                  ELSE <<>>
    /\ netLog = <<ValidateRequest("cliTok")>>
                \o (IF sent THEN <<ProtectRequest(content, "cliTok", config)>>
                    ELSE <<>>)
    /\ answers = <<Answer(NoPath, 0, ValidateOk, <<>>)>>
    /\ fsLog = <<>>
    /\ probes = <<DEFAULT_CONFIG_FILE>> /\ stdout = <<>>
    /\ fatal = "" /\ exitCode = NoExit
    /\ deletes = {}
    /\ wrapper = Spawned
    /\ call = NotCalled

(***************************************************************************)
(* The guard of obfuscateFile on its own: file contents with a watermark   *)
(* comment, well formed or not, at the start or further on.                *)
(***************************************************************************)
HexRun(n) == [k \in 1..n |-> IF k % 2 = 1 THEN "0" ELSE "f"]

\* what may stand where a watermark comment would: nothing, two well-formed
\* comments, and comments that are too short, too long, upper case or
\* without the closing `_marker`
MarkLike ==
    { <<>>,
      <<"PFX">> \o HexRun(WatermarkIdLen) \o <<"SFX">>,
      <<"PFX", "a", "b", "c", "d", "e", "f", "9", "8", "SFX">>,
      <<"PFX">> \o HexRun(WatermarkIdLen - 1) \o <<"SFX">>,
      <<"PFX">> \o HexRun(WatermarkIdLen + 1) \o <<"SFX">>,
      <<"PFX">> \o HexRun(WatermarkIdLen - 1) \o <<"A", "SFX">>,
      <<"PFX">> \o HexRun(WatermarkIdLen) \o <<"NL">> }

GuardContents ==
    { prefix \o mark \o suffix :
        prefix \in { <<>>, <<"BOM">>, <<"code", "NL">>, <<"BOM", "code", "NL">> },
        mark \in MarkLike,
        suffix \in { <<>>, <<"NL", "code">>,
                     <<"NL", "code", "NL", "PFX">> \o HexRun(WatermarkIdLen)
                         \o <<"SFX">> } }

InitGuard == \E content \in GuardContents : InIteration("read", content, FALSE)

SpecGuard == InitGuard /\ [][ReadAndRequest]_vars

(***************************************************************************)
(* The response handlers of callBytehideShieldAPI on their own: the        *)
(* request of a.js is in flight and the service answers with any status    *)
(* code, with a body that is not JSON, JSON without `error`, or JSON with  *)
(* `error`.                                                                *)
(***************************************************************************)
MinStatus == 100
MaxStatus == 599

\* the bodies of an answer: (parses as JSON, its error field, its message
\* field), Undefined for a field the body does not have
ErrorBodies ==
    { <<FALSE, Undefined, Undefined>>, <<TRUE, Undefined, "detail">>,
      <<TRUE, "", "detail">>, <<TRUE, "Quota exceeded", "detail">>,
      <<TRUE, "Internal Server Error", "boom">>,
      <<TRUE, "Internal Server Error", Undefined>> }

StatusResponses ==
    { Response("ok", statusCode, body[1], body[2], body[3], <<>>, <<>>, <<>>) :
        statusCode \in MinStatus..MaxStatus, body \in ErrorBodies }

InitStatus == InIteration("await", PlainSource, TRUE)

AnswerAnyStatus == ProtectAnsweredFrom(StatusResponses)

SpecStatus == InitStatus /\ [][AnswerAnyStatus]_vars

(***************************************************************************)
(* The search for the configuration file on its own: runs without --config *)
(* at the call of loadConfig, over file lists that name the working        *)
(* directory, src and lib.js in different orders and more than once, and   *)
(* every combination of configuration files in the three directories.      *)
(***************************************************************************)
LIB_CFG == Join(LIB_DIR, DEFAULT_CONFIG_FILE)

SearchLists ==
    { <<A_JS>>, <<B_JS>>, <<D_JS>>, <<A_JS, B_JS>>, <<B_JS, A_JS>>, <<B_JS, D_JS>>,
      <<D_JS, B_JS>>, <<B_JS, C_MJS, D_JS>>, <<D_JS, B_JS, C_MJS>>,
      <<A_JS, D_JS, B_JS>>, <<B_JS, SRC_A_JS, D_JS>>, <<D_JS, A_JS, B_JS>> }

\* each directory's file, when present, has a content of its own
SearchConfigs ==
    { [p \in present |-> IF p = DEFAULT_CONFIG_FILE THEN CfgPT
                         ELSE IF p = SRC_CFG THEN CfgLower ELSE CfgEmpty] :
        present \in SUBSET {DEFAULT_CONFIG_FILE, SRC_CFG, LIB_CFG} }

InitSearch ==
    \E list \in SearchLists, fs \in SearchConfigs :
        /\ options = DefaultOptions
        /\ env = Env("", "")
        /\ matched = list
        /\ files = InitialFiles(list, "fresh")
        /\ files0 = files
        /\ dirs = {Dot, <<"src">>, LIB_DIR}
        /\ cfgFiles = fs
        /\ pc = "loadConfig"
        /\ allFiles = list
        /\ config = DEFAULT_CONFIG
        /\ token = ""
        /\ i = 0
        /\ cur = Idle
        /\ successCount = 0 /\ failCount = 0 /\ skippedCount = 0
        /\ failedFiles = <<>> /\ skippedFiles = <<>>
        /\ inflight = <<>> /\ netLog = <<>> /\ answers = <<>>
        /\ fsLog = <<>> /\ probes = <<>> /\ stdout = <<>>
        /\ fatal = "" /\ exitCode = NoExit
        /\ deletes = {}
        /\ wrapper = Spawned
        /\ call = NotCalled

SpecSearch == InitSearch /\ [][LoadConfig]_vars

(***************************************************************************)
(* index.js: the programmatic obfuscate(code, token, config, options).     *)
(* An argument is a JavaScript value: its typeof, its truthiness and, for  *)
(* a string, its text (tokens for code, a string for the token).  The      *)
(* library is used without a run of the CLI: pc is "imported".             *)
(***************************************************************************)
Arg(type, truthy, value) == [type |-> type, truthy |-> truthy, value |-> value]

\* undefined, a number, a Buffer, '', source code, watermarked code
CodeArgs ==
    { Arg("undefined", FALSE, <<>>), Arg("number", TRUE, <<>>),
      Arg("object", TRUE, PlainSource), Arg("string", FALSE, <<>>),
      Arg("string", TRUE, PlainSource), Arg("string", TRUE, ProtectedOutput) }

TokenArgs ==
    { Arg("undefined", FALSE, ""), Arg("number", TRUE, ""),
      Arg("string", FALSE, ""), Arg("string", TRUE, "tok") }

\* if (!v || typeof v !== 'string')
NotNonEmptyString(v) == ~v.truthy \/ v.type # "string"

\* _returnCodeOnly: returnFullResult ? 'full' : true
returnCodeOnly(includeSourceMap, includeSymbols) ==
    IF includeSourceMap \/ includeSymbols THEN "full" ELSE "true"

\* obfuscate() returning every field of the result that is present,
\* requested or not
obfuscateReturnsAll(mode, includeSourceMap, includeSymbols, obfuscationResult) ==
    IF mode = "full"
    THEN [type |-> "object",
          value |-> [k \in {"output"}
                        \cup (IF obfuscationResult.sourceMap # <<>>
                              THEN {"sourceMap"} ELSE {})
                        \cup (IF obfuscationResult.symbols # <<>>
                              THEN {"symbols"} ELSE {})
                     |-> obfuscationResult[k]]]
    ELSE [type |-> "string", value |-> [output |-> obfuscationResult.output]]

\* what obfuscate() returns from the result of callBytehideShieldAPI:
\* obfuscateFile returns the result ('full') or its output, and obfuscate
\* copies output and the requested fields that are set, or returns the
\* string (kept here under the key output)
obfuscateReturn(mode, includeSourceMap, includeSymbols, obfuscationResult) ==
    IF mode = "full"
    THEN [type |-> "object",
          value |-> [k \in {"output"}
                        \cup (IF includeSourceMap /\ obfuscationResult.sourceMap # <<>>
                              THEN {"sourceMap"} ELSE {})
                        \cup (IF includeSymbols /\ obfuscationResult.symbols # <<>>
                              THEN {"symbols"} ELSE {})
                     |-> obfuscationResult[k]]]
    ELSE [type |-> "string", value |-> [output |-> obfuscationResult.output]]

\* obfuscate() up to the request: the two argument checks, then
\* obfuscateFile with _code, which skips readFile and the guard
ObfuscateCalled ==
    /\ call.state = "called"
    /\ IF NotNonEmptyString(call.code)
       THEN /\ call' = [call EXCEPT !.state = "thrown",
                                    !.error = <<"Code must be a non-empty string">>]
            /\ UNCHANGED <<inflight, netLog>>
       ELSE IF NotNonEmptyString(call.token)
       THEN /\ call' = [call EXCEPT !.state = "thrown",
                            !.error = <<"ByteHide Shield project token is required">>]
            /\ UNCHANGED <<inflight, netLog>>
       ELSE /\ call' = [call EXCEPT !.state = "sent"]
            /\ \E obfuscationID \in RandomIDs :
                   inflight' = Append(inflight,
                       [id |-> obfuscationID,
                        request |-> ProtectRequest(call.code.value, call.token.value,
                                                   <<>>)])
            /\ netLog' = Append(netLog, ProtectRequest(call.code.value,
                                                       call.token.value, <<>>))
    /\ UNCHANGED <<pc, options, env, matched, files, files0, dirs, cfgFiles, allFiles,
                   config, token, loopVars, answers, fsLog, probes, stdout, fatal,
                   exitCode, deletes, wrapper>>

\* the answer settles the call: obfuscate() returns or rejects
ObfuscateAnswered ==
    /\ call.state = "sent"
    /\ \E res \in ProtectResponses, uniqueId \in WatermarkIds :
        LET r == HandleProtectResponse(res, uniqueId) IN
        call' = [call EXCEPT
                    !.state = IF r.ok THEN "returned" ELSE "thrown",
                    !.answer = <<Answer(NoPath, 0, res, IF r.ok THEN uniqueId ELSE <<>>)>>,
                    !.error = r.error,
                    !.result = IF r.ok
                               THEN <<obfuscateReturn(
                                        returnCodeOnly(call.includeSourceMap,
                                                       call.includeSymbols),
                                        call.includeSourceMap, call.includeSymbols,
                                        r.result)>>
                               ELSE <<>>]
    /\ inflight' = <<>>
    /\ UNCHANGED <<pc, options, env, matched, files, files0, dirs, cfgFiles, allFiles,
                   config, token, loopVars, answers, netLog, fsLog, probes, stdout,
                   fatal, exitCode, deletes, wrapper>>

InitCall ==
    \E code \in CodeArgs, tok \in TokenArgs, sm \in BOOLEAN, sym \in BOOLEAN :
        /\ call = [NotCalled EXCEPT !.state = "called", !.code = code, !.token = tok,
                                    !.includeSourceMap = sm, !.includeSymbols = sym]
        /\ pc = "imported"
        /\ options = DefaultOptions
        /\ env = Env("", "")
        /\ matched = <<>> /\ allFiles = <<>>
        /\ files = InitialFiles(<<A_JS>>, "fresh")
        /\ files0 = files
        /\ dirs = {Dot}
        /\ cfgFiles = CfgFs(CfgAbsent, CfgAbsent, CfgAbsent, CfgAbsent)
        /\ config = DEFAULT_CONFIG
        /\ token = ""
        /\ i = 0
        /\ cur = Idle
        /\ successCount = 0 /\ failCount = 0 /\ skippedCount = 0
        /\ failedFiles = <<>> /\ skippedFiles = <<>>
        /\ inflight = <<>> /\ netLog = <<>> /\ answers = <<>>
        /\ fsLog = <<>> /\ probes = <<>> /\ stdout = <<>>
        /\ fatal = "" /\ exitCode = NoExit
        /\ deletes = {}
        /\ wrapper = Spawned

NextCall == ObfuscateCalled \/ ObfuscateAnswered

SpecCall == InitCall /\ [][NextCall]_vars

(***************************************************************************)
(* bin/shield.js: the parent spawns the CLI as a child, forwards SIGINT,   *)
(* SIGTERM and SIGQUIT to it, and exits when the child's exit event        *)
(* arrives.  The child runs protect(); it installs no handler of its own,  *)
(* so a signal delivered to it terminates it some time after delivery.     *)
(* The run of the child is the one with the request of a.js in flight.     *)
(***************************************************************************)
Signals == {"SIGINT", "SIGTERM", "SIGQUIT"}

\* process.on(signal, () => { if (!childProcess.killed) childProcess.kill(signal) })
\* kill() delivers the signal and sets `killed` when the child still runs;
\* it returns false for a child that is gone
ParentReceives(signal) ==
    /\ wrapper.parent = "running"
    /\ Len(wrapper.received) < MaxSignals
    /\ LET sends == ~wrapper.killed /\ wrapper.child = "running" IN
        wrapper' =
            [wrapper EXCEPT
                !.received = Append(@, [signal |-> signal,
                                        running |-> wrapper.child = "running"]),
                !.forwarded = IF sends THEN Append(@, signal) ELSE @,
                !.pending = IF sends THEN Append(@, signal) ELSE @,
                !.killed = IF sends THEN TRUE ELSE @]
    /\ UNCHANGED <<protectVars, call>>

\* the child is terminated by a signal delivered to it: its exit event
\* carries code null
ChildDiesOfSignal ==
    /\ wrapper.child = "running"
    /\ wrapper.pending # <<>>
    /\ wrapper' = [wrapper EXCEPT !.child = "exited", !.childCode = NullCode,
                                  !.pending = <<>>]
    /\ UNCHANGED <<protectVars, call>>

\* the child ends by itself with the exit code of protect()
ChildExits ==
    /\ wrapper.child = "running"
    /\ \E code \in {0, 1} :
          wrapper' = [wrapper EXCEPT !.child = "exited", !.childCode = code]
    /\ UNCHANGED <<protectVars, call>>

\* childProcess.on('exit', (code) => process.exit(code)); process.exit(null)
\* ends the process with code 0
ParentOnExit ==
    /\ wrapper.parent = "running"
    /\ wrapper.child = "exited"
    /\ wrapper' = [wrapper EXCEPT
                      !.parent = "exited",
                      !.parentCode = IF wrapper.childCode = NullCode THEN 0
                                     ELSE wrapper.childCode]
    /\ UNCHANGED <<protectVars, call>>

InitWrapper == InIteration("await", PlainSource, TRUE)

NextWrapper ==
    \/ \E signal \in Signals : ParentReceives(signal)
    \/ ChildDiesOfSignal
    \/ ChildExits
    \/ ParentOnExit

SpecWrapper == InitWrapper /\ [][NextWrapper]_vars

(***************************************************************************)
(* Vocabulary of the properties.                                           *)
(***************************************************************************)
IterationPcs == {"ensureDir", "backup", "read", "await", "writeCode", "writeMap",
                 "writeSymbols"}

RunLevelErrors == {"ConfigRequired", "ConfigNotFound", "ConfigFormatError",
                   "ConfigParseError", "TokenMissing", "TokenInvalid", "OptionError"}

\* outcomes recorded so far
Recorded == successCount + Len(failedFiles) + Len(skippedFiles)

SummaryPrinted ==
    /\ pc = "exited"
    /\ Len(stdout) = 1
    /\ "total" \in DOMAIN stdout[1]

ProtectRequests == {k \in 1..Len(netLog) : netLog[k].kind = "protect"}

\* no step of any iteration has run
NoPerFileStep ==
    /\ fsLog = <<>>
    /\ ProtectRequests = {}
    /\ i = 0 /\ cur = Idle
    /\ Recorded = 0 /\ failCount = 0 /\ skippedCount = 0

IOFaults == { <<"EACCES: mkdir">>, <<"EACCES: copyfile">>, <<"EACCES: write">> }

NoIOFault == \A k \in 1..Len(failedFiles) : failedFiles[k].error \notin IOFaults

\* a file of the shape obfuscateFile writes: mark, watermark line, code
IsRunOutput(content) ==
    /\ Len(content) >= WatermarkIdLen + 4
    /\ content[1] = "BOM"
    /\ content[2] = "PFX"
    /\ \A j \in 1..WatermarkIdLen : content[2 + j] \in HexLower
    /\ content[WatermarkIdLen + 3] = "SFX"
    /\ content[WatermarkIdLen + 4] = "NL"

InSkipped(f) ==
    \E k \in 1..Len(skippedFiles) :
        skippedFiles[k].file = f /\ skippedFiles[k].reason = "Already protected"

InFailed(f) == \E k \in 1..Len(failedFiles) : failedFiles[k].file = f

(***************************************************************************)
(* C1.  In the processing loop every iteration, however it ends (file      *)
(* missing, mkdir or backup error, already protected, remote or network    *)
(* error, write error, success), records exactly one outcome for its file  *)
(* and returns to the loop head with i advanced by one; the loop is left   *)
(* only after the last file, through the summary and exit code 0.          *)
(***************************************************************************)
C1_Step ==
    /\ (pc \in IterationPcs \cup {"loop"})
          => pc' \in IterationPcs \cup {"loop", "exited"}
    /\ (pc \in IterationPcs /\ pc' \notin IterationPcs)
          => /\ pc' = "loop"
             /\ i' = i + 1
             /\ Recorded' = Recorded + 1
             /\ exitCode' = NoExit
    /\ (pc = "loop" /\ pc' = "loop" /\ i' # i)
          => /\ i' = i + 1
             /\ Recorded' = Recorded + 1
    /\ (failedFiles' # failedFiles)
          => /\ Front(failedFiles') = failedFiles
             /\ Last(failedFiles').file = allFiles[i + 1]
    /\ (skippedFiles' # skippedFiles)
          => /\ Front(skippedFiles') = skippedFiles
             /\ Last(skippedFiles').file = allFiles[i + 1]
    /\ (pc = "loop" /\ pc' = "exited")
          => /\ i = Len(allFiles)
             /\ Recorded = Len(allFiles)
             /\ exitCode' = 0
             /\ Len(stdout') = 1
             /\ stdout'[1].total = Len(allFiles)

C1_PerFileFailureNeverAborts == [][C1_Step]_vars

\* a batch of two whose first file failed and whose second was protected,
\* followed by the summary
C1_Witness ==
    /\ SummaryPrinted
    /\ Len(allFiles) = 2
    /\ Len(failedFiles) = 1
    /\ failedFiles[1].file = allFiles[1]
    /\ successCount = 1

(***************************************************************************)
(* C2 (as claimed).  In a run without file-system errors, an input that    *)
(* an earlier successful run wrote (mark, watermark line, code) is         *)
(* recorded as Skipped with reason "Already protected", not as Failed; no  *)
(* protection request carries its content; and its content after the run   *)
(* is its content before the run.                                          *)
(***************************************************************************)
C2_ProtectedInputUntouched ==
    (SummaryPrinted /\ NoIOFault) =>
        \A k \in 1..Len(allFiles) :
            LET f == allFiles[k] IN
            (f \in DOMAIN files0 /\ IsRunOutput(files0[f]) /\ f \notin deletes) =>
                /\ InSkipped(f)
                /\ ~InFailed(f)
                /\ \A r \in ProtectRequests : netLog[r].code # files0[f]
                /\ f \in DOMAIN files
                /\ files[f] = files0[f]

(***************************************************************************)
(* C3 (as claimed).  A dry run with at least one matched file that passes  *)
(* the run-level checks performs no file-system write and no network       *)
(* call, prints one planned-path line per discovered file and exits with   *)
(* code 0.                                                                 *)
(***************************************************************************)
C3_DryRunNoEffects ==
    (options.dryRun /\ allFiles # <<>> /\ pc = "exited" /\ fatal = "") =>
        /\ fsLog = <<>>
        /\ netLog = <<>>
        /\ Len(stdout) = Len(allFiles)
        /\ exitCode = 0

(***************************************************************************)
(* C4 (as claimed).  For a batch of more than one file with output,        *)
(* sourceMapPath or symbolsPath set, when option validation has failed     *)
(* the run has exit code 1 and has made no network call (no token          *)
(* validation request, no protection request) and no file-system write.   *)
(***************************************************************************)
C4_OptionConflictBeforeIO ==
    (/\ Len(allFiles) > 1
     /\ \/ options.output # NoPath
        \/ options.sourceMapPath # NoPath
        \/ options.symbolsPath # NoPath
     /\ fatal = "OptionError") =>
        /\ exitCode = 1
        /\ netLog = <<>>
        /\ fsLog = <<>>

(***************************************************************************)
(* C5 (as claimed).  The config object of every protection request sent    *)
(* has neither a ProjectToken nor a projectToken field.                    *)
(***************************************************************************)
C5_NoTokenInRequestConfig ==
    \A r \in ProtectRequests : DOMAIN netLog[r].config \cap TokenKeys = {}

(***************************************************************************)
(* C6.  getToken returns the first non-empty of: CLI token,                *)
(* BYTEHIDE_SHIELD_TOKEN, BYTEHIDE_TOKEN, config.ProjectToken,             *)
(* config.projectToken; none ("") when all five are empty; so a non-empty  *)
(* CLI token is always the one returned.                                   *)
(***************************************************************************)
RECURSIVE FirstNonEmpty(_)
FirstNonEmpty(sources) ==
    IF sources = <<>> THEN ""
    ELSE IF Truthy(Head(sources)) THEN Head(sources)
    ELSE FirstNonEmpty(Tail(sources))

TokenSources ==
    << options.token, env.BYTEHIDE_SHIELD_TOKEN, env.BYTEHIDE_TOKEN,
       Get(config, "ProjectToken"), Get(config, "projectToken") >>

C6_TokenPriority ==
    pc \notin {"discover", "loadConfig", "getToken"} =>
        /\ token = FirstNonEmpty(TokenSources)
        /\ Truthy(options.token) => token = options.token
        /\ (\A k \in 1..5 : ~Truthy(TokenSources[k])) => token = ""

\* all five sources are set and the CLI token was returned
C6_Witness ==
    /\ pc \notin {"discover", "loadConfig", "getToken"}
    /\ \A k \in 1..5 : Truthy(TokenSources[k])
    /\ token = "cliTok"

(***************************************************************************)
(* C7.  Exit code 1 occurs only for a run-level precondition failure,      *)
(* before any file is processed; a run that enters the loop ends with      *)
(* exit code 0 whatever the outcomes, also when every file is Failed.      *)
(***************************************************************************)
C7_ExitCodeZeroAfterLoop ==
    /\ pc = "exited" <=> exitCode # NoExit
    /\ exitCode \in {NoExit, 0, 1}
    /\ exitCode = 1 => (fatal \in RunLevelErrors /\ NoPerFileStep /\ stdout = <<>>)
    /\ (pc = "exited" /\ (i > 0 \/ Recorded > 0)) =>
            (exitCode = 0 /\ SummaryPrinted /\ Recorded = Len(allFiles))

\* both files of a batch Failed and the run exited with code 0
C7_Witness ==
    /\ pc = "exited"
    /\ exitCode = 0
    /\ Len(allFiles) = 2
    /\ failCount = 2
    /\ successCount = 0 /\ skippedCount = 0

(***************************************************************************)
(* C8.  If configuration loading fails, no token is resolved, the token    *)
(* validation is rejected or option validation fails, the process exits    *)
(* with code 1 and no per-file step (mkdir, backup, protection request,    *)
(* output write) has happened for any file.                                *)
(***************************************************************************)
BeforeConfig == {"discover", "loadConfig"}
BeforeToken == BeforeConfig \cup {"getToken"}
BeforeOptions == BeforeToken \cup {"validateToken", "awaitValidate", "validateOptions"}

C8_RunLevelFailureIsFatal ==
    /\ fatal # "" => (pc = "exited" /\ exitCode = 1 /\ NoPerFileStep)
    /\ (allFiles # <<>> /\ pc \notin BeforeConfig
          /\ loadConfig(options.config, allFiles, options.config = NoPath).end # "return")
          => (pc = "exited" /\ exitCode = 1 /\ NoPerFileStep)
    /\ (allFiles # <<>> /\ pc \notin BeforeToken /\ ~Truthy(token))
          => (pc = "exited" /\ exitCode = 1 /\ NoPerFileStep)
    /\ (pc \in {"dryRun", "loop"} /\ i = 0 /\ fsLog = <<>>)
          => validateOutputOptions(allFiles, options) = ""

\* option validation failed for a batch of two after the token was accepted
C8_Witness ==
    /\ fatal = "OptionError"
    /\ exitCode = 1
    /\ Len(allFiles) = 2
    /\ Len(netLog) = 1

(***************************************************************************)
(* C9.  Without --config, when shield.config.json exists neither in the    *)
(* working directory nor in the directory of any discovered file, the run  *)
(* exits with code 1 before the token is resolved and before any network   *)
(* call; the loaded configuration never is the built-in defaults alone.    *)
(***************************************************************************)
NoConfigAnywhere ==
    /\ options.config = NoPath
    /\ DEFAULT_CONFIG_FILE \notin DOMAIN cfgFiles
    /\ \A k \in 1..Len(allFiles) :
           Join(Dirname(allFiles[k]), DEFAULT_CONFIG_FILE) \notin DOMAIN cfgFiles

C9_ConfigRequired ==
    /\ (allFiles # <<>> /\ pc \notin BeforeConfig /\ NoConfigAnywhere) =>
          /\ pc = "exited" /\ exitCode = 1
          /\ token = ""
          /\ netLog = <<>>
    /\ (allFiles # <<>> /\ pc \notin BeforeConfig /\ pc # "exited") =>
          /\ probes # <<>>
          /\ Last(probes) \in DOMAIN cfgFiles
          /\ config = MergeConfig(cfgFiles[Last(probes)].obj)

\* no configuration file anywhere, a token in the environment, exit code 1
C9_Witness ==
    /\ NoConfigAnywhere
    /\ allFiles # <<>>
    /\ Truthy(env.BYTEHIDE_SHIELD_TOKEN)
    /\ pc = "exited" /\ exitCode = 1
    /\ fatal = "ConfigRequired"

(***************************************************************************)
(* C10.  When --config names a path where no file exists, configuration    *)
(* resolution fails and the run exits with code 1; neither the working     *)
(* directory nor the input files' directories are probed, also when a      *)
(* valid shield.config.json is there.                                      *)
(***************************************************************************)
ExplicitMissing ==
    /\ options.config # NoPath
    /\ options.config \notin DOMAIN cfgFiles

C10_ExplicitMissingNoFallback ==
    (allFiles # <<>> /\ pc \notin BeforeConfig /\ ExplicitMissing) =>
        /\ pc = "exited" /\ exitCode = 1
        /\ fatal = "ConfigNotFound"
        /\ probes = <<options.config>>
        /\ config = DEFAULT_CONFIG
        /\ netLog = <<>>

\* the explicit path is missing while the working directory holds a valid
\* shield.config.json, and the run exited with code 1
C10_Witness ==
    /\ ExplicitMissing
    /\ DEFAULT_CONFIG_FILE \in DOMAIN cfgFiles
    /\ cfgFiles[DEFAULT_CONFIG_FILE].parse = "ok"
    /\ pc = "exited" /\ exitCode = 1

(***************************************************************************)
(* C11 (as claimed).  The guard reports a content as already protected if  *)
(* and only if the content STARTS with the watermark comment (the literal  *)
(* prefix, eight lower-case hex digits, `_marker`); a content that has the *)
(* comment only at a later position is not reported.                       *)
(***************************************************************************)
StartsWithWatermark(content) ==
    /\ Len(content) >= WatermarkIdLen + 2
    /\ content[1] = "PFX"
    /\ \A j \in 1..WatermarkIdLen : content[1 + j] \in HexLower
    /\ content[WatermarkIdLen + 2] = "SFX"

C11_GuardIffStartsWithWatermark ==
    pc # "read" =>
        /\ InSkipped(A_JS) <=> StartsWithWatermark(files0[A_JS])
        /\ (ProtectRequests = {}) <=> StartsWithWatermark(files0[A_JS])

(***************************************************************************)
(* C12.  The output of every successful protection call, whatever code    *)
(* the service returned and whatever identifier the watermark got, is      *)
(* reported as already protected by the guard; so is the file written      *)
(* from it.                                                                *)
(***************************************************************************)
AfterCall == {"writeCode", "writeMap", "writeSymbols"}

C12_CallOutputPassesGuard ==
    /\ pc \in AfterCall => isAlreadyObfuscated(cur.result.output)
    /\ pc \in AfterCall \ {"writeCode"} =>
          isAlreadyObfuscated(files[cur.outputPath])

\* a call succeeded with the second identifier for code that itself begins
\* with the literal prefix, and the file was written
C12_Witness ==
    /\ pc = "writeMap"
    /\ Last(answers).uniqueId = <<"f", "f", "f", "f", "f", "f", "f", "f">>
    /\ Last(answers).res.output = <<"PFX", "obf2">>
    /\ isAlreadyObfuscated(files[cur.outputPath])

(***************************************************************************)
(* C13.  The code file written for a successful call is the mark EF BB BF, *)
(* one watermark comment (prefix, the eight hex digits drawn for this      *)
(* call, `_marker`), a line break, and the code exactly as the service     *)
(* returned it; it holds exactly one watermark comment.  After a run over  *)
(* a.js and src/b.js with --output-dir dist --output-ext .protected in     *)
(* which both succeeded, dist/a.protected.js and dist/b.protected.js exist *)
(* with that shape.                                                        *)
(***************************************************************************)
ShapeOf(uniqueId, code) == <<"BOM", "PFX">> \o uniqueId \o <<"SFX", "NL">> \o code

WatermarksIn(content) ==
    { k \in 1..Len(content) :
        /\ content[k] = "PFX"
        /\ k + WatermarkIdLen + 1 <= Len(content)
        /\ \A j \in 1..WatermarkIdLen : content[k + j] \in HexLower
        /\ content[k + WatermarkIdLen + 1] = "SFX" }

WrittenFor(inputFile, path) ==
    /\ path \in DOMAIN files
    /\ \E k \in 1..Len(answers) :
          /\ answers[k].file = inputFile
          /\ files[path] = ShapeOf(answers[k].uniqueId, answers[k].res.output)
          /\ WatermarksIn(files[path]) = {2}

DistRun ==
    /\ allFiles = <<A_JS, B_JS>>
    /\ options.outputDir = DIST
    /\ options.outputExt = PROT_EXT
    /\ SummaryPrinted
    /\ successCount = 2

C13_SuccessFileShape ==
    /\ pc \in {"writeMap", "writeSymbols"} =>
          /\ Len(Last(answers).uniqueId) = WatermarkIdLen
          /\ WrittenFor(cur.file, cur.outputPath)
          /\ files[cur.outputPath] =
                ShapeOf(Last(answers).uniqueId, Last(answers).res.output)
    /\ DistRun =>
          /\ WrittenFor(A_JS, <<"dist", "/", "a", ".protected", ".js">>)
          /\ WrittenFor(B_JS, <<"dist", "/", "b", ".protected", ".js">>)

\* the run of the scenario ended with both files protected, the two
\* outputs carrying different identifiers
C13_Witness ==
    /\ DistRun
    /\ files[<<"dist", "/", "a", ".protected", ".js">>][1] = "BOM"
    /\ files[<<"dist", "/", "a", ".protected", ".js">>][3] = "0"
    /\ files[<<"dist", "/", "b", ".protected", ".js">>][3] = "f"

(***************************************************************************)
(* C14.  A file whose protection request was answered with HTTP 429 is     *)
(* recorded as Failed with the message "Protection skipped to avoid        *)
(* performance issues in final build. Reducing file size...", and the      *)
(* loop goes on past it (the run ends with the summary and exit code 0).   *)
(* Amended: this holds when the body of the 429 response is not JSON       *)
(* carrying an `error` field.                                              *)
(***************************************************************************)
ProtectionSkippedMessage ==
    "Protection skipped to avoid performance issues in final build. Reducing file size..."

FailedWith(f, message) ==
    \E k \in 1..Len(failedFiles) :
        failedFiles[k] = [file |-> f, error |-> message]

HasErrorBody(res) == res.json /\ Truthy(res.error)

\* the answers to protection requests that carried the status code
AnsweredWith(statusCode) ==
    { k \in 1..Len(answers) :
        /\ answers[k].file # NoPath
        /\ answers[k].res.net = "ok"
        /\ answers[k].res.statusCode = statusCode }

LoopWentOn(k) ==
    /\ i > answers[k].index
    /\ pc \in IterationPcs \cup {"loop", "exited"}
    /\ pc = "exited" => (SummaryPrinted /\ exitCode = 0 /\ Recorded = Len(allFiles))

C14_Status429WithoutErrorBody ==
    \A k \in AnsweredWith(429) :
        ~HasErrorBody(answers[k].res) =>
            /\ FailedWith(answers[k].file, <<ProtectionSkippedMessage>>)
            /\ LoopWentOn(k)

\* C14 as claimed: whatever the body of the 429 response
C14_EveryStatus429 ==
    \A k \in AnsweredWith(429) :
        /\ FailedWith(answers[k].file, <<ProtectionSkippedMessage>>)
        /\ LoopWentOn(k)

\* the first of two files was answered 429, the second was protected, and
\* the summary was printed
C14_Witness ==
    /\ SummaryPrinted
    /\ Len(allFiles) = 2
    /\ \E k \in AnsweredWith(429) :
          /\ answers[k].file = allFiles[1]
          /\ ~HasErrorBody(answers[k].res)
    /\ FailedWith(allFiles[1], <<ProtectionSkippedMessage>>)
    /\ successCount = 1

(***************************************************************************)
(* C15 (as claimed).  The friendly message depends on the status class     *)
(* only: 400 gives the invalid-request message; 401, 403 and 404 the       *)
(* authentication message; 429 the protection-skipped message; every       *)
(* status from 500 to 599 the service-error message; any other status the  *)
(* generic message.  (Read off the failure recorded for a non-200 answer   *)
(* without an error body.)                                                 *)
(***************************************************************************)
MessageOfClass(statusCode) ==
    IF statusCode = 400
    THEN "Request contains invalid data. Check your configuration and source code."
    ELSE IF statusCode \in {401, 403, 404}
    THEN "Authentication error. Verify that your project token is valid. For more information visit: docs.bytehide.com/platforms/javascript/products/shield/configuration-project-token"
    ELSE IF statusCode = 429
    THEN ProtectionSkippedMessage
    ELSE IF statusCode \in 500..599
    THEN "Service error. Please try again later."
    ELSE "Error processing the request. Check your configuration and try again."

C15_MessageByStatusClass ==
    \A k \in 1..Len(answers) :
        (/\ answers[k].file # NoPath
         /\ answers[k].res.net = "ok"
         /\ answers[k].res.statusCode # 200
         /\ ~HasErrorBody(answers[k].res)) =>
            FailedWith(answers[k].file, <<MessageOfClass(answers[k].res.statusCode)>>)

(***************************************************************************)
(* C16 (as claimed).  The code path of the running iteration is a          *)
(* function of the input path and the options alone, by strict priority:   *)
(* options.output when set, whatever outputDir and outputExt are; else a   *)
(* path directly in outputDir when that is set; else a path in the input   *)
(* file's own directory.                                                   *)
(***************************************************************************)
C16_OutputPathPriority ==
    pc \in IterationPcs =>
        /\ cur.outputPath = getOutputPath(cur.file, options)
        /\ options.output # NoPath => cur.outputPath = options.output
        /\ (options.output = NoPath /\ options.outputDir # NoPath) =>
              Dirname(cur.outputPath) = options.outputDir
        /\ (options.output = NoPath /\ options.outputDir = NoPath) =>
              Dirname(cur.outputPath) = Dirname(cur.file)

(***************************************************************************)
(* C17 (as claimed).  Without options.output, the code path is the         *)
(* input's base name with outputExt inserted immediately before its final  *)
(* extension, in outputDir when that is set and in the input's directory   *)
(* otherwise; also when the extension text occurs earlier in the name or   *)
(* in a directory name.                                                    *)
(***************************************************************************)
InsertBeforeExtension(name, suffix) == Front(name) \o suffix \o <<Last(name)>>

C17_SuffixBeforeFinalExtension ==
    (pc \in IterationPcs /\ options.output = NoPath) =>
        cur.outputPath =
            Join(IF options.outputDir # NoPath THEN options.outputDir
                 ELSE Dirname(cur.file),
                 InsertBeforeExtension(Basename(cur.file), options.outputExt))

(***************************************************************************)
(* C18.  Where the side files go and when they are written.  For a batch   *)
(* of one file the source map goes to options.sourceMapPath when given,    *)
(* else to code path + ".map"; the symbols cache to options.symbolsPath    *)
(* when given, else to code path + ".symbols.json"; for a larger batch     *)
(* always to code path + suffix.  The step of obfuscateFile that handles   *)
(* a side file writes it (there, and nothing else) when the option is on   *)
(* and the result has the field, and touches no file otherwise.            *)
(***************************************************************************)
PlannedMapPath ==
    IF Len(allFiles) = 1 /\ options.sourceMapPath # NoPath
    THEN options.sourceMapPath ELSE cur.outputPath \o <<".map">>

PlannedSymbolsPath ==
    IF Len(allFiles) = 1 /\ options.symbolsPath # NoPath
    THEN options.symbolsPath ELSE cur.outputPath \o <<".symbols", ".json">>

\* the step wrote `content` to `path` and changed no other file
WroteOnly(path, content) ==
    /\ DOMAIN files' = DOMAIN files \cup {path}
    /\ files'[path] = content
    /\ \A q \in DOMAIN files \ {path} : files'[q] = files[q]
    /\ Last(fsLog') = [op |-> "write", path |-> path]

C18_Step ==
    /\ (pc = "writeMap" /\ pc' = "writeSymbols") =>
          IF options.sourceMap /\ cur.result.sourceMap # <<>>
          THEN WroteOnly(PlannedMapPath, cur.result.sourceMap)
          ELSE files' = files /\ fsLog' = fsLog
    /\ (pc = "writeSymbols" /\ successCount' = successCount + 1) =>
          IF options.symbols /\ cur.result.symbols # <<>>
          THEN WroteOnly(PlannedSymbolsPath, <<"json:">> \o cur.result.symbols)
          ELSE files' = files /\ fsLog' = fsLog
    /\ (pc = "writeMap" /\ ~(options.sourceMap /\ cur.result.sourceMap # <<>>)) =>
          pc' = "writeSymbols"
    /\ (pc = "writeSymbols" /\ ~(options.symbols /\ cur.result.symbols # <<>>)) =>
          successCount' = successCount + 1

C18_SideFilePaths == [][C18_Step]_vars

\* a single file was protected with both custom paths given, and both side
\* files are at their custom paths and not beside the code file
C18_Witness ==
    /\ SummaryPrinted
    /\ successCount = 1
    /\ options.sourceMapPath = MAP_CUSTOM /\ options.symbolsPath = SYM_CUSTOM
    /\ MAP_CUSTOM \in DOMAIN files /\ files[MAP_CUSTOM] = <<"map">>
    /\ SYM_CUSTOM \in DOMAIN files /\ files[SYM_CUSTOM] = <<"json:", "sym">>
    /\ A_JS \o <<".map">> \notin DOMAIN files

(***************************************************************************)
(* C19.  After a configuration file was loaded, the merged configuration   *)
(* has the keys controlFlowFlattening, debugProtection and                 *)
(* devtoolsBlocking, each with the file's value when the file has the key  *)
(* and else with the built-in default (true, false, true); every other     *)
(* option of the file that is not a token key is carried over unchanged.   *)
(***************************************************************************)
ConfigErrors == {"ConfigRequired", "ConfigNotFound", "ConfigFormatError",
                 "ConfigParseError"}

ConfigLoaded == allFiles # <<>> /\ pc \notin BeforeConfig /\ fatal \notin ConfigErrors

BuiltIn(key) == IF key = "debugProtection" THEN "false" ELSE "true"

C19_MergedConfigKeepsDefaults ==
    ConfigLoaded =>
        LET obj == cfgFiles[Last(probes)].obj IN
        /\ \A key \in {"controlFlowFlattening", "debugProtection", "devtoolsBlocking"} :
              /\ key \in DOMAIN config
              /\ config[key] = IF key \in DOMAIN obj THEN obj[key] ELSE BuiltIn(key)
        /\ \A key \in DOMAIN obj \ TokenKeys :
              key \in DOMAIN config /\ config[key] = obj[key]

\* a file that sets controlFlowFlattening to false and nothing else of the
\* three was loaded
C19_Witness ==
    /\ ConfigLoaded
    /\ "controlFlowFlattening" \in DOMAIN cfgFiles[Last(probes)].obj
    /\ "debugProtection" \notin DOMAIN cfgFiles[Last(probes)].obj
    /\ config.controlFlowFlattening = "false"
    /\ config.debugProtection = "false"
    /\ config.devtoolsBlocking = "true"

(***************************************************************************)
(* C20.  When no matched path ends in .js or .mjs, the run ends right      *)
(* after discovery with exit code 0: no configuration file was probed or   *)
(* loaded, no token resolved or validated, no request sent and no file     *)
(* written or changed; this does not depend on whether a configuration or  *)
(* a token exists.                                                         *)
(***************************************************************************)
NoJavaScriptMatched ==
    \A k \in 1..Len(matched) :
        ~(EndsWith(matched[k], ".js") \/ EndsWith(matched[k], ".mjs"))

C20_ZeroMatchExitsZero ==
    (pc # "discover" /\ NoJavaScriptMatched) =>
        /\ pc = "exited" /\ exitCode = 0 /\ fatal = ""
        /\ allFiles = <<>>
        /\ probes = <<>> /\ config = DEFAULT_CONFIG
        /\ token = ""
        /\ netLog = <<>> /\ answers = <<>>
        /\ fsLog = <<>> /\ files = files0
        /\ stdout = <<>>

\* only notes.txt matched, there is no configuration file and no token
\* anywhere, and the run exited with code 0
C20_Witness ==
    /\ matched = <<NOTES>>
    /\ cfgFiles = CfgFs(CfgAbsent, CfgAbsent, CfgAbsent, CfgAbsent)
    /\ options.config = NoPath
    /\ ~Truthy(options.token)
    /\ pc = "exited" /\ exitCode = 0

(***************************************************************************)
(* C21 (as claimed).  Every SIGINT, SIGTERM or SIGQUIT the parent receives *)
(* while the child is still running has been forwarded to the child as     *)
(* that same signal, in order, however many there are; and the parent has  *)
(* exited only if the child has, with the child's exit code.               *)
(***************************************************************************)
ReceivedWhileChildRuns(r) == r.running

SignalsToForward ==
    LET due == SelectSeq(wrapper.received, ReceivedWhileChildRuns) IN
    [k \in 1..Len(due) |-> due[k].signal]

C21_SignalsForwardedVerbatim ==
    /\ wrapper.forwarded = SignalsToForward
    /\ wrapper.parent = "exited" =>
          /\ wrapper.child = "exited"
          /\ wrapper.parentCode = wrapper.childCode

(***************************************************************************)
(* C22.  Files are processed one after another in discovery order: at most *)
(* one protection request is outstanding at any moment; while a file is    *)
(* being processed it is the file at the loop index and exactly the files  *)
(* before it have an outcome; every directory creation, copy, write and    *)
(* protection request of the loop is made for that file, after the         *)
(* outcomes of all earlier files were recorded and with no request of an   *)
(* earlier file still unanswered.                                          *)
(***************************************************************************)
InOrder ==
    /\ i < Len(allFiles)
    /\ cur.file = allFiles[i + 1]
    /\ Recorded = i

C22_Step ==
    /\ Len(inflight') <= 1
    /\ (pc \in IterationPcs) => InOrder
    /\ (fsLog' # fsLog \/ (files' # files /\ DOMAIN files \subseteq DOMAIN files'))
          => pc \in IterationPcs /\ inflight = <<>>
    /\ (netLog' # netLog /\ Last(netLog').kind = "protect")
          => /\ pc \in IterationPcs
             /\ inflight = <<>>
             /\ Last(netLog').code = files[allFiles[i + 1]]
    /\ (Recorded' # Recorded)
          => Recorded' = Recorded + 1 /\ i' = i + 1 /\ Recorded = i

C22_StrictlySequential == [][C22_Step]_vars

\* the request of the second file of a batch is outstanding after the
\* first file was written and counted
C22_Witness ==
    /\ Len(allFiles) = 2
    /\ i = 1
    /\ pc = "await"
    /\ Len(inflight) = 1
    /\ inflight[1].request.code = files[allFiles[2]]
    /\ successCount = 1
    /\ Len(fsLog) > 0

(***************************************************************************)
(* C23.  With backup enabled, whenever the protection request of a file is *)
(* sent and whenever one of its code, map or symbols files is written,     *)
(* <file>.backup has already been copied in that iteration and holds,      *)
(* token for token, the content the input file had before its protection:  *)
(* the content that is sent, which is the content the file had when the    *)
(* run started.  The writes of the iteration leave the backup as it is.    *)
(***************************************************************************)
BackupCopied(file) ==
    \E k \in 1..Len(fsLog) : fsLog[k] = [op |-> "copy", path |-> BackupPath(file)]

BackupHolds(file, content) ==
    /\ BackupCopied(file)
    /\ BackupPath(file) \in DOMAIN files
    /\ files[BackupPath(file)] = content

C23_Step ==
    options.backup =>
        /\ (netLog' # netLog /\ Last(netLog').kind = "protect")
              => /\ BackupHolds(cur.file, Last(netLog').code)
                 /\ Last(netLog').code = files0[cur.file]
        /\ (fsLog' # fsLog /\ Last(fsLog').op = "write")
              => /\ BackupHolds(cur.file, cur.fileContent)
                 /\ files'[BackupPath(cur.file)] = cur.fileContent

C23_BackupBeforeProtection == [][C23_Step]_vars

\* an in-place run has overwritten a.js and a.js.backup holds the source
C23_Witness ==
    /\ options.backup
    /\ pc = "writeMap"
    /\ cur.file = A_JS /\ cur.outputPath = A_JS
    /\ files[A_JS] # PlainSource
    /\ files[BackupPath(A_JS)] = PlainSource
    /\ fsLog[1] = [op |-> "copy", path |-> BackupPath(A_JS)]

(***************************************************************************)
(* C24 (as claimed).  When an iteration ends with the outcome Failed, no   *)
(* write to the file's planned code path, source-map path or symbols path  *)
(* has been made in the run.                                               *)
(***************************************************************************)
PlannedPaths == {cur.outputPath, PlannedMapPath, PlannedSymbolsPath}

C24_Step ==
    (pc \in IterationPcs /\ failedFiles' # failedFiles)
        => \A k \in 1..Len(fsLog') :
              fsLog'[k].op = "write" => fsLog'[k].path \notin PlannedPaths

C24_FailedLeavesNoOutput == [][C24_Step]_vars

(***************************************************************************)
(* C25 (as claimed).  With backup enabled and in-place output, a run over  *)
(* a file that an earlier run protected in place, leaving the source in    *)
(* <file>.backup, keeps that backup: at every moment of the later run the  *)
(* backup holds what it held when the run started, never watermarked       *)
(* content.                                                                *)
(***************************************************************************)
InPlaceWithBackup ==
    /\ options.backup
    /\ options.output = NoPath
    /\ options.outputDir = NoPath
    /\ options.outputExt = <<>>

ProtectedByEarlierRun(file) ==
    /\ file \in DOMAIN files0
    /\ BackupPath(file) \in DOMAIN files0
    /\ isAlreadyObfuscated(files0[file])
    /\ ~isAlreadyObfuscated(files0[BackupPath(file)])

C25_RerunKeepsBackup ==
    InPlaceWithBackup =>
        \A k \in 1..Len(allFiles) :
            ProtectedByEarlierRun(allFiles[k]) =>
                /\ BackupPath(allFiles[k]) \in DOMAIN files
                /\ files[BackupPath(allFiles[k])] = files0[BackupPath(allFiles[k])]
                /\ ~isAlreadyObfuscated(files[BackupPath(allFiles[k])])

(***************************************************************************)
(* C26 (as claimed).  In a batch that validateOutputOptions accepted, two  *)
(* distinct input files never have the same planned code path.             *)
(***************************************************************************)
C26_PlannedCodePathsDistinct ==
    (pc \in IterationPcs \cup {"loop"}) =>
        \A k, l \in 1..Len(allFiles) :
            allFiles[k] # allFiles[l] =>
                getOutputPath(allFiles[k], options) # getOutputPath(allFiles[l], options)

(***************************************************************************)
(* C27.  With backup enabled: the step in which the backup of a file fails *)
(* sends nothing, changes no file and records the file as Failed; from     *)
(* then on no request is sent or answered for that file and its content    *)
(* stays as it is; and a file is overwritten by its own protected output   *)
(* only after its backup was copied in that run.                           *)
(***************************************************************************)
BackupFailed(f) ==
    \E k \in 1..Len(failedFiles) :
        failedFiles[k] = [file |-> f, error |-> <<"EACCES: copyfile">>]

C27_Step ==
    options.backup =>
        /\ (pc = "backup" /\ fsLog' = fsLog)
              => /\ ~BackupCopied(cur.file)
                 /\ failedFiles' # failedFiles
                 /\ Last(failedFiles') = [file |-> cur.file,
                                          error |-> <<"EACCES: copyfile">>]
                 /\ failCount' = failCount + 1
                 /\ files' = files /\ netLog' = netLog /\ inflight' = <<>>
                 /\ pc' = "loop"
        /\ \A k \in 1..Len(allFiles) :
              BackupFailed(allFiles[k]) =>
                  /\ cur'.file # allFiles[k]
                  /\ allFiles[k] \in DOMAIN files => files'[allFiles[k]] = files[allFiles[k]]
                  /\ \A a \in 1..Len(answers') : answers'[a].file # allFiles[k]
        /\ (fsLog' # fsLog /\ Last(fsLog') = [op |-> "write", path |-> cur.file])
              => BackupCopied(cur.file) /\ ~BackupFailed(cur.file)

C27_BackupFailureStopsFile == [][C27_Step]_vars

\* the backup of a.js failed in a run that writes in place: the run ended
\* with a.js as it was, recorded as Failed, and sent no protection request
C27_Witness ==
    /\ InPlaceWithBackup
    /\ SummaryPrinted
    /\ allFiles = <<A_JS>>
    /\ BackupFailed(A_JS)
    /\ files[A_JS] = PlainSource
    /\ ProtectRequests = {}
    /\ failCount = 1

(***************************************************************************)
(* C28.  Every discovered file gets exactly one outcome.  During the loop  *)
(* the three counters sum to the number of files processed so far, the     *)
(* lengths of skippedFiles and failedFiles equal skippedCount and          *)
(* failCount, no file appears twice in the two lists, and the files listed *)
(* are among those processed; a step changes the lists only by appending   *)
(* one entry and never lowers a counter; the summary reports counts that   *)
(* sum to the total number of discovered files.                            *)
(***************************************************************************)
ListedFiles ==
    [k \in 1..Len(failedFiles) |-> failedFiles[k].file]
        \o [k \in 1..Len(skippedFiles) |-> skippedFiles[k].file]

C28_Counts ==
    /\ successCount + skippedCount + failCount = i
    /\ Len(skippedFiles) = skippedCount
    /\ Len(failedFiles) = failCount
    /\ i <= Len(allFiles)
    /\ \A k, l \in 1..Len(ListedFiles) : ListedFiles[k] = ListedFiles[l] => k = l
    /\ \A k \in 1..Len(ListedFiles) : \E l \in 1..i : ListedFiles[k] = allFiles[l]
    /\ SummaryPrinted =>
          /\ stdout[1].success + stdout[1].skipped + stdout[1].failed = stdout[1].total
          /\ stdout[1].total = Len(allFiles)
          /\ stdout[1].success = successCount
          /\ stdout[1].skippedFiles = skippedFiles
          /\ stdout[1].failedFiles = failedFiles

C28_Appends ==
    /\ failedFiles' = failedFiles \/ Front(failedFiles') = failedFiles
    /\ skippedFiles' = skippedFiles \/ Front(skippedFiles') = skippedFiles
    /\ successCount' \in {successCount, successCount + 1}
    /\ (successCount' + skippedCount' + failCount')
          \in {successCount + skippedCount + failCount,
               successCount + skippedCount + failCount + 1}

C28_OneOutcomePerFile == []C28_Counts /\ [][C28_Appends]_vars

\* the summary of a batch of two with one file skipped and one failed
C28_Witness ==
    /\ SummaryPrinted
    /\ Len(allFiles) = 2
    /\ skippedCount = 1 /\ Len(skippedFiles) = 1
    /\ failCount = 1 /\ Len(failedFiles) = 1
    /\ successCount = 0

(***************************************************************************)
(* C29 (as claimed).  When --output-dir names a directory that does not    *)
(* exist, option validation ends the run with code 1 and the option error, *)
(* no step of any iteration having run, whatever the number of files and   *)
(* the other options.                                                      *)
(***************************************************************************)
OutputDirMissing == options.outputDir # NoPath /\ options.outputDir \notin dirs

C29_Step ==
    (pc = "validateOptions" /\ OutputDirMissing)
        => /\ pc' = "exited"
           /\ exitCode' = 1
           /\ fatal' = "OptionError"
           /\ NoPerFileStep'

C29_MissingOutputDirIsFatal == [][C29_Step]_vars

(***************************************************************************)
(* C30.  A protection request answered with a status other than 200 fails  *)
(* its file with a message chosen as follows: when the body parses as JSON *)
(* and its `error` field is set and not empty, "Protection error: "        *)
(* followed by that field, or by the body's `message` field when `error`   *)
(* is "Internal Server Error"; in every other case (the body does not      *)
(* parse, has no `error` field, or has an empty one) the message of the    *)
(* status code.                                                            *)
(***************************************************************************)
NonOkAnswers ==
    { k \in 1..Len(answers) :
        /\ answers[k].file # NoPath
        /\ answers[k].res.net = "ok"
        /\ answers[k].res.statusCode # 200 }

MessageOfBody(res) ==
    IF res.error = "Internal Server Error"
    THEN <<"Protection error: ", res.message>>
    ELSE <<"Protection error: ", res.error>>

C30_ErrorBodyFirst ==
    \A k \in NonOkAnswers :
        FailedWith(answers[k].file,
                   IF HasErrorBody(answers[k].res)
                   THEN MessageOfBody(answers[k].res)
                   ELSE <<getFriendlyErrorMessage(answers[k].res.statusCode)>>)

\* C30 as claimed: the body's error field is used whenever the body has one
C30_AnyErrorFieldFirst ==
    \A k \in NonOkAnswers :
        FailedWith(answers[k].file,
                   IF answers[k].res.json /\ answers[k].res.error # Undefined
                   THEN MessageOfBody(answers[k].res)
                   ELSE <<getFriendlyErrorMessage(answers[k].res.statusCode)>>)

\* a 503 answer whose body carries the sentinel failed the file with the
\* body's message, not with the message of the status
C30_Witness ==
    \E k \in NonOkAnswers :
        /\ answers[k].res.statusCode = 503
        /\ answers[k].res.error = "Internal Server Error"
        /\ answers[k].res.message = "boom"
        /\ FailedWith(answers[k].file, <<"Protection error: ", "boom">>)
        /\ pc = "loop"

(***************************************************************************)
(* C31.  The step that answers a protection request with status 200 and a  *)
(* body that is not valid JSON, is the JSON value null, or is an object    *)
(* without (or with an empty) `output` fails the call: no watermark is     *)
(* generated, no file and no directory is touched, and the file is         *)
(* recorded as Failed and left behind.  The message is "No protected code  *)
(* received in response." for an object without output, and "Error         *)
(* processing response: " followed by the parser's or the runtime's        *)
(* message for a body that does not parse or is null.                      *)
(***************************************************************************)
NoOutput200(res) ==
    /\ res.net = "ok"
    /\ res.statusCode = 200
    /\ (~res.json \/ res.isNull \/ res.output = <<>>)

NoProtectedCode == <<"No protected code received in response.">>

\* the step answered the request of the file in hand with `a`, failed the
\* file with `message` and wrote nothing
FailsUnwritten(a, message) ==
    /\ a.file = cur.file
    /\ a.uniqueId = <<>>
    /\ files' = files /\ dirs' = dirs /\ fsLog' = fsLog
    /\ failedFiles' = Append(failedFiles, [file |-> cur.file, error |-> message])
    /\ failCount' = failCount + 1
    /\ successCount' = successCount /\ skippedFiles' = skippedFiles
    /\ i' = i + 1 /\ pc' = "loop"

C31_Step ==
    (pc = "await" /\ answers' # answers /\ NoOutput200(Last(answers').res))
        => LET a == Last(answers') IN
           FailsUnwritten(a,
               IF ~a.res.json THEN <<"Error processing response: ", "SyntaxError">>
               ELSE IF a.res.isNull THEN <<"Error processing response: ", "TypeError">>
               ELSE NoProtectedCode)

C31_NoOutputFailsUnwritten == [][C31_Step]_vars

\* C31 as claimed: every body that parses and has no output field gives
\* the message "No protected code received in response."
C31_StepAsClaimed ==
    (pc = "await" /\ answers' # answers /\ NoOutput200(Last(answers').res))
        => LET a == Last(answers') IN
           FailsUnwritten(a,
               IF ~a.res.json THEN <<"Error processing response: ", "SyntaxError">>
               ELSE NoProtectedCode)

C31_MissingOutputAlwaysNamed == [][C31_StepAsClaimed]_vars

\* a 200 answer without output failed a.js, written in place with a
\* backup: a.js is still the source and only the backup was made
C31_Witness ==
    /\ SummaryPrinted
    /\ allFiles = <<A_JS>>
    /\ InPlaceWithBackup
    /\ FailedWith(A_JS, NoProtectedCode)
    /\ NoOutput200(Last(answers).res)
    /\ Last(answers).uniqueId = <<>>
    /\ files[A_JS] = PlainSource
    /\ fsLog = << [op |-> "copy", path |-> BackupPath(A_JS)] >>

(***************************************************************************)
(* C32.  Under SpecLive (every request is answered, every file-system call *)
(* returns) every run eventually exits, and a run that has exited ended in *)
(* one of three ways: at a run-level step (no JavaScript file matched,     *)
(* code 0; configuration, token or option error, code 1) with no step of   *)
(* any iteration taken; after the dry-run report, one line per discovered  *)
(* file and nothing else done; or after the summary, with the loop index   *)
(* at the end of allFiles, one outcome per discovered file, no file listed *)
(* twice and at most one answered request per file.                        *)
(***************************************************************************)
EndedAtRunLevel ==
    /\ NoPerFileStep
    /\ stdout = <<>>
    /\ \/ exitCode = 0 /\ allFiles = <<>> /\ fatal = ""
       \/ exitCode = 1 /\ fatal \in RunLevelErrors

EndedAfterDryRun ==
    /\ options.dryRun
    /\ exitCode = 0
    /\ NoPerFileStep
    /\ allFiles # <<>>
    /\ Len(stdout) = Len(allFiles)
    /\ \A k \in 1..Len(allFiles) : stdout[k].file = allFiles[k]

EndedAfterSummary ==
    /\ ~options.dryRun
    /\ exitCode = 0
    /\ SummaryPrinted
    /\ allFiles # <<>>
    /\ i = Len(allFiles)
    /\ Recorded = Len(allFiles)
    /\ cur = Idle /\ inflight = <<>>
    /\ \A k, l \in 1..Len(allFiles) : allFiles[k] = allFiles[l] => k = l
    /\ \A k, l \in 1..Len(ListedFiles) : ListedFiles[k] = ListedFiles[l] => k = l
    /\ \A k, l \in 1..Len(answers) :
          (answers[k].file # NoPath /\ answers[k].file = answers[l].file) => k = l

C32_RunTerminates ==
    /\ <>(pc = "exited")
    /\ [](pc = "exited" =>
            (EndedAtRunLevel \/ EndedAfterDryRun \/ EndedAfterSummary))

\* a batch of two ended after the summary, one file protected and one
\* failed, after another process had removed a file
C32_Witness ==
    /\ pc = "exited"
    /\ EndedAfterSummary
    /\ Len(allFiles) = 2
    /\ successCount = 1 /\ failCount = 1
    /\ deletes # {}

(***************************************************************************)
(* C33.  Without --config, loadConfig reads shield.config.json of the      *)
(* working directory when that exists; otherwise the one in the directory  *)
(* of the first input file, in the order of discovery, whose directory     *)
(* holds one; and it ends the run with the configuration-required error    *)
(* when there is none.  A file in an input's directory is never read when  *)
(* the working directory has one.                                          *)
(***************************************************************************)
ConfigBeside(file) == Join(Dirname(file), DEFAULT_CONFIG_FILE)

\* the inputs whose directory holds a configuration file
WithConfig == {k \in 1..Len(allFiles) : ConfigBeside(allFiles[k]) \in DOMAIN cfgFiles}

ExpectedConfig ==
    IF DEFAULT_CONFIG_FILE \in DOMAIN cfgFiles THEN DEFAULT_CONFIG_FILE
    ELSE IF WithConfig = {} THEN NoPath
    ELSE ConfigBeside(allFiles[CHOOSE k \in WithConfig : \A l \in WithConfig : k <= l])

C33_ConfigSearchOrder ==
    (options.config = NoPath /\ allFiles # <<>> /\ pc \notin BeforeConfig) =>
        IF ExpectedConfig = NoPath
        THEN pc = "exited" /\ exitCode = 1 /\ fatal = "ConfigRequired"
        ELSE /\ probes # <<>>
             /\ Last(probes) = ExpectedConfig
             /\ \A k \in 1..(Len(probes) - 1) : probes[k] \notin DOMAIN cfgFiles
             /\ fatal \notin ConfigErrors =>
                    config = MergeConfig(cfgFiles[ExpectedConfig].obj)

\* lib.js/d.js was discovered before src/b.js, both directories hold a
\* file and the working directory holds none: the one of lib.js was read
C33_Witness ==
    /\ pc = "getToken"
    /\ allFiles = <<D_JS, B_JS>>
    /\ DOMAIN cfgFiles = {SRC_CFG, LIB_CFG}
    /\ probes = <<DEFAULT_CONFIG_FILE, LIB_CFG>>
    /\ config = MergeConfig(CfgEmpty.obj)

(***************************************************************************)
(* C34.  obfuscate(code, token, config, options): a code or a token that   *)
(* is empty or not a string is rejected before any request is sent; code   *)
(* that is a non-empty string is sent as it is, watermarked or not; no     *)
(* file is read, written or created; with neither includeSourceMap nor     *)
(* includeSymbols the call returns the watermarked output as a string, and *)
(* otherwise an object with output and exactly those of sourceMap and      *)
(* symbols that were requested and that the response holds.                *)
(***************************************************************************)
ValidArgs ==
    /\ call.code.type = "string" /\ call.code.value # <<>>
    /\ call.token.type = "string" /\ call.token.value # ""

C34_ProgrammaticObfuscate ==
    call.state \in {"sent", "returned", "thrown"} =>
        /\ files = files0 /\ fsLog = <<>> /\ dirs = {Dot}
        /\ ~ValidArgs =>
              /\ call.state = "thrown"
              /\ netLog = <<>> /\ inflight = <<>> /\ call.answer = <<>>
        /\ ValidArgs =>
              /\ Len(netLog) = 1
              /\ netLog[1].kind = "protect"
              /\ netLog[1].code = call.code.value
        /\ call.state = "returned" =>
              LET a == call.answer[1]
                  r == call.result[1]
                  wanted == {"output"}
                      \cup (IF call.includeSourceMap /\ a.res.sourceMap # <<>>
                            THEN {"sourceMap"} ELSE {})
                      \cup (IF call.includeSymbols /\ a.res.symbols # <<>>
                            THEN {"symbols"} ELSE {})
              IN  /\ a.res.statusCode = 200
                  /\ r.value.output =
                        <<"PFX">> \o a.uniqueId \o <<"SFX", "NL">> \o a.res.output
                  /\ IF ~call.includeSourceMap /\ ~call.includeSymbols
                     THEN r.type = "string"
                     ELSE /\ r.type = "object"
                          /\ DOMAIN r.value = wanted
                          /\ \A k \in wanted \ {"output"} : r.value[k] = a.res[k]

\* watermarked code was passed with includeSymbols only; the response held
\* a source map and symbols; the object returned has output and symbols
C34_Witness ==
    /\ call.state = "returned"
    /\ call.code.value = ProtectedOutput
    /\ ~call.includeSourceMap /\ call.includeSymbols
    /\ call.answer[1].res.sourceMap # <<>>
    /\ call.result[1].type = "object"
    /\ DOMAIN call.result[1].value = {"output", "symbols"}
    /\ files = files0

(***************************************************************************)
(* C35.  When the file whose turn has come no longer exists, the step of   *)
(* the loop records it as Failed with "File not found", creates no         *)
(* directory, copies and writes nothing, sends no request, and leaves the  *)
(* loop at its head with the index advanced, the run not ended.  No        *)
(* request is ever answered for a file recorded that way and no backup of  *)
(* it is ever made.                                                        *)
(***************************************************************************)
FileNotFound(f) == FailedWith(f, <<"File not found">>)

TurnOfMissingFile ==
    /\ pc = "loop"
    /\ i < Len(allFiles)
    /\ allFiles[i + 1] \notin DOMAIN files

C35_Step ==
    (TurnOfMissingFile /\ files' = files) =>
        /\ failedFiles' = Append(failedFiles, [file |-> allFiles[i + 1],
                                               error |-> <<"File not found">>])
        /\ failCount' = failCount + 1
        /\ successCount' = successCount /\ skippedFiles' = skippedFiles
        /\ dirs' = dirs /\ fsLog' = fsLog
        /\ netLog' = netLog /\ inflight' = inflight /\ answers' = answers
        /\ i' = i + 1
        /\ pc' = "loop" /\ exitCode' = NoExit

C35_Missing ==
    \A k \in 1..Len(allFiles) :
        FileNotFound(allFiles[k]) =>
            /\ \A a \in 1..Len(answers) : answers[a].file # allFiles[k]
            /\ ~BackupCopied(allFiles[k])
            /\ cur.file # allFiles[k]

C35_MissingFileIsFailed == []C35_Missing /\ [][C35_Step]_vars

\* the first file of a batch was removed before its turn and recorded as
\* not found; the second was protected and the summary printed
C35_Witness ==
    /\ SummaryPrinted
    /\ Len(allFiles) = 2
    /\ allFiles[1] \in deletes
    /\ FileNotFound(allFiles[1])
    /\ successCount = 1
    /\ ~BackupCopied(allFiles[1])

====
